---- MODULE Spec2Model ----
(***************************************************************************)
(* Punch-state model, hours calculation and midnight rollover / backfill   *)
(* of the timesheet server (src/server.js).                                *)
(*                                                                         *)
(* Time is counted in whole seconds (the source's 1000 ms is 1 here).      *)
(* Civil day k of the fixed zone starts at instant k * DayLen; the offset  *)
(* of the zone is the same for every day of the model's time line.         *)
(***************************************************************************)
EXTENDS Integers, Sequences, FiniteSets, TLC

\* ---------------------------------------------------------------- bounds
DayLen == 20          \* seconds per civil day on the model's time line
MaxDay == 2           \* the clock runs from day 0 up to day MaxDay
MaxPunches == 2       \* punch requests accepted over a behaviour
MaxBackfillDays == 2  \* largest `days` argument of ensureBackfillForUser
MaxSlot == 6          \* calculateHours inputs: punches fall on slots 0 .. MaxSlot
MaxLen == 3           \* calculateHours, getStateAt inputs: length of an arbitrary sequence
MaxBreaks == 2        \* calculateHours inputs: breaks of a well-formed session
MaxZoneDay == 2       \* the zone clock runs over the UTC days 0 .. MaxZoneDay
MaxStamp == 2         \* getStateAt inputs: punches and boundary fall on 0 .. MaxStamp
MaxMissed == 3        \* lookback: the last punch is at most MaxMissed civil days old

Employees == {1, 2}
Types == {"in", "out", "break_start", "break_end"}
States == {"out", "in", "break"}
Null == -1            \* JavaScript null for an instant (instants are >= 0)

\* a row of the punches table of one employee: punch_type, punched_at
Row(t, a) == [type |-> t, at |-> a]

\* ------------------------------------------------------ civil time
\* NY civil day of an instant (formatToParts with timeZone: TIMEZONE)
civilDay(t) == t \div DayLen
\* nyLocalToUTC(y, m, d, 0, 0, 0): instant of local midnight of day d
nyLocalToUTC(d) == d * DayLen
todayStartUTC(d) == d * DayLen
\* Date.UTC(y, m - 1, d - 1, 23, 59, 59) - offset
endYesterdayUTC(d) == (d - 1) * DayLen + (DayLen - 1)

\* Instants at which the clock is observed: the middle of every day and,
\* around every midnight of the time line, every second of the rollover
\* window [endOfPriorDay - 2, startOfNewDay + 2].
NearMidnight == -3 .. 2
Instants == { d * DayLen + k : d \in 1 .. MaxDay, k \in NearMidnight }
            \cup { d * DayLen + (DayLen \div 2) : d \in 0 .. MaxDay }

\* ------------------------------------------------------ sorting
RECURSIVE InsertByTime(_, _)
InsertByTime(s, p) ==
  IF s = <<>> THEN <<p>>
  ELSE IF s[Len(s)].at <= p.at THEN Append(s, p)
  ELSE Append(InsertByTime(SubSeq(s, 1, Len(s) - 1), p), s[Len(s)])

\* [...punches].sort((a, b) => a.punched_at - b.punched_at), a stable sort
RECURSIVE SortByTime(_)
SortByTime(s) ==
  IF s = <<>> THEN <<>>
  ELSE InsertByTime(SortByTime(SubSeq(s, 1, Len(s) - 1)), s[Len(s)])

\* SQL "ORDER BY punched_at ASC" over the rows idx of a log: every order
\* that is ascending in punched_at; rows with equal punched_at come in any
\* order.
RECURSIVE OrderByPunchedAt(_, _)
OrderByPunchedAt(log, idx) ==
  IF idx = {} THEN { <<>> }
  ELSE LET m == CHOOSE i \in idx : \A j \in idx : log[i].at <= log[j].at
           first == { i \in idx : log[i].at = log[m].at }
       IN UNION { { <<log[i]>> \o rest : rest \in OrderByPunchedAt(log, idx \ {i}) }
                  : i \in first }

\* ------------------------------------------------------ calculateHours
SecondsPerHour == 60 * 60

HoursInit == [total |-> 0, inTime |-> Null, breakStart |-> Null]

\* HoursStepIn that leaves an open session running
HoursStepInKeepsOpen(acc, p) ==
  IF acc.inTime # Null THEN [acc EXCEPT !.breakStart = Null]
  ELSE [acc EXCEPT !.inTime = p.at, !.breakStart = Null]

\* HoursStepIn that leaves a break open
HoursStepInKeepsBreak(acc, p) == [acc EXCEPT !.inTime = p.at]

HoursStepIn(acc, p) == [acc EXCEPT !.inTime = p.at, !.breakStart = Null]

HoursStepBreakStart(acc, p) ==
  [total |-> IF acc.inTime # Null /\ acc.breakStart = Null
             THEN acc.total + (p.at - acc.inTime) ELSE acc.total,
   inTime |-> acc.inTime,
   breakStart |-> p.at]

\* HoursStepBreakEnd that does not restart the clock at the end of the break
HoursStepBreakEndNoResume(acc, p) ==
  IF acc.breakStart # Null
  THEN [acc EXCEPT !.breakStart = Null]
  ELSE [acc EXCEPT !.inTime = p.at]

\* HoursStepBreakEnd that ignores a break_end met outside a break
HoursStepBreakEndStrayIgnored(acc, p) ==
  IF acc.breakStart # Null
  THEN [acc EXCEPT !.inTime = p.at, !.breakStart = Null]
  ELSE acc

HoursStepBreakEnd(acc, p) ==
  IF acc.breakStart # Null
  THEN [acc EXCEPT !.inTime = p.at, !.breakStart = Null]
  ELSE [acc EXCEPT !.inTime = p.at]

HoursStepOut(acc, p) ==
  [total |-> IF acc.inTime # Null /\ acc.breakStart = Null
             THEN acc.total + (p.at - acc.inTime)
             ELSE IF acc.inTime # Null /\ acc.breakStart # Null
             THEN acc.total + (acc.breakStart - acc.inTime)
             ELSE acc.total,
   inTime |-> Null,
   breakStart |-> Null]

HoursStep(acc, p) ==
  CASE p.type = "in" -> HoursStepIn(acc, p)
    [] p.type = "break_start" -> HoursStepBreakStart(acc, p)
    [] p.type = "break_end" -> HoursStepBreakEnd(acc, p)
    [] p.type = "out" -> HoursStepOut(acc, p)
    [] OTHER -> acc

RECURSIVE HoursFold(_, _)
HoursFold(acc, s) ==
  IF s = <<>> THEN acc ELSE HoursFold(HoursStep(acc, Head(s)), Tail(s))

\* the statements after the loop; wallClock is the value of new Date()
HoursEndOfPass(acc, currentTime, wallClock) ==
  IF acc.inTime # Null /\ acc.breakStart = Null
  THEN LET endTime == IF currentTime # Null THEN currentTime ELSE wallClock
       IN acc.total + (endTime - acc.inTime)
  ELSE IF acc.inTime # Null /\ acc.breakStart # Null
  THEN acc.total + (acc.breakStart - acc.inTime)
  ELSE acc.total

\* The result is the rational num / den hours; num is in seconds.
calculateHours(punchList, currentTime, wallClock) ==
  IF Len(punchList) = 0 THEN [num |-> 0, den |-> SecondsPerHour]
  ELSE [num |-> HoursEndOfPass(HoursFold(HoursInit, SortByTime(punchList)),
                               currentTime, wallClock),
        den |-> SecondsPerHour]

\* ------------------------------------------------------ getStateAt
\* StateStep that takes every break_start for the start of a break
StateStepAnyBreakStart(state, p) ==
  CASE p.type = "in" -> "in"
    [] p.type = "break_start" -> "break"
    [] p.type = "break_end" -> "in"
    [] p.type = "out" -> "out"
    [] OTHER -> state

StateStep(state, p) ==
  CASE p.type = "in" -> "in"
    [] p.type = "break_start" -> IF state = "in" THEN "break" ELSE state
    [] p.type = "break_end" -> "in"
    [] p.type = "out" -> "out"
    [] OTHER -> state

RECURSIVE StateFold(_, _)
StateFold(state, s) ==
  IF s = <<>> THEN state ELSE StateFold(StateStep(state, Head(s)), Tail(s))

AtOrBefore(p, boundaryUTC) == p.at <= boundaryUTC

getStateAt(punchList, boundaryUTC) ==
  StateFold("out",
    SortByTime(SelectSeq(punchList, LAMBDA p : AtOrBefore(p, boundaryUTC))))

\* ------------------------------------------------------ the store
VARIABLES
  punches,    \* punches[e]: the rows of employee e, in insertion order
  active,     \* employees whose active flag is TRUE
  now,        \* the wall clock
  accepted,   \* number of punch requests accepted so far
  run,        \* what the last completed operation did
  hPunches,      \* calculateHours: the punches argument
  hCurrentTime,  \* calculateHours: the currentTime argument (Null: omitted)
  hWall,         \* calculateHours: what new Date() returns during the call
  hResult,       \* calculateHours: << the returned value >>, << >> before the call
  proc,          \* the asynchronous rollover / backfill calls in flight
  overlap,       \* (employee, day) for which two calls looked before either inserted
  session,       \* session[e]: the browser session of employee e
  tz,            \* the DST transition on the time line: "none", "spring", "fall"
  serverTz,      \* time zone of the server process: "NY" or "UTC"
  utc,           \* the wall clock in seconds since 00:00 UTC of day 0
  timers,        \* due instants of the pending setTimeout timers
  fired,         \* fired[d]: timer callbacks that ran on NY civil day d so far
  tick,          \* what the last rollover trigger computed
  up,            \* the server process is running
  rolled,        \* civil dates for which a performMidnightRollover run has ended
  shown,         \* what the last /hours page showed
  own,           \* own[e]: the rows the punch requests of employee e stored
  gPunches,      \* getStateAt: the punches argument
  gBoundary,     \* getStateAt: the boundaryUTC argument
  gOther,        \* getStateAt: the same punches, supplied in another order
  gResult,       \* getStateAt: << result for gPunches, result for gOther >>
  cDate,         \* nyLocalToUTC: the civil date (y, m, d), a day number
  cTime,         \* nyLocalToUTC: << h, mi, s >>
  cInstant       \* nyLocalToUTC: << the returned instant >>, << >> before the call

storeVars == <<punches, active, now, accepted, run>>
hoursVars == <<hPunches, hCurrentTime, hWall, hResult>>
raceVars == <<proc, overlap>>
sessionVars == <<session>>
timerVars == <<tz, serverTz, utc, timers, fired, tick, up>>
viewVars == <<rolled, shown, own>>
callVars == <<gPunches, gBoundary, gOther, gResult>>
convVars == <<cDate, cTime, cInstant>>
vars == <<punches, active, now, accepted, run,
          hPunches, hCurrentTime, hWall, hResult, proc, overlap, session,
          tz, serverTz, utc, timers, fired, tick, up, rolled, shown, own,
          gPunches, gBoundary, gOther, gResult, cDate, cTime, cInstant>>

\* rows of a log with windowStart <= punched_at <= windowEnd (BETWEEN)
InWindow(log, windowStart, windowEnd) ==
  { i \in DOMAIN log : windowStart <= log[i].at /\ log[i].at <= windowEnd }

windowPunches(log, windowStart, windowEnd) ==
  { log[i] : i \in InWindow(log, windowStart, windowEnd) }

\* typesInWindow.has(t)
hasType(win, t) == \E p \in win : p.type = t

hasBreakStartNext(win, todayStart) ==
  \E p \in win : p.type = "break_start" /\ p.at >= todayStart

\* SELECT ... WHERE punched_at <= $2 ORDER BY punched_at ASC, then getStateAt
StatesAtBoundary(log, boundaryUTC) ==
  { getStateAt(arr, boundaryUTC) :
      arr \in OrderByPunchedAt(log, { i \in DOMAIN log : log[i].at <= boundaryUTC }) }

\* ------------------------------------------------------ performMidnightRollover
\* RolloverInserts with break_end stamped at the instant of the out
RolloverInsertsSameInstant(stateAtBoundary, win, endYesterday, todayStart) ==
  IF stateAtBoundary = "in" \/ stateAtBoundary = "break"
  THEN (IF stateAtBoundary = "break" /\ ~hasType(win, "break_end")
        THEN << Row("break_end", endYesterday) >> ELSE <<>>)
       \o (IF ~hasType(win, "out")
           THEN << Row("out", endYesterday) >> ELSE <<>>)
       \o (IF ~hasType(win, "in")
           THEN << Row("in", todayStart) >> ELSE <<>>)
       \o (IF stateAtBoundary = "break" /\ ~hasBreakStartNext(win, todayStart)
           THEN << Row("break_start", todayStart + 1) >> ELSE <<>>)
  ELSE <<>>

\* RolloverInserts without the test of stateAtBoundary around the out / in
RolloverInsertsNoStateGuard(stateAtBoundary, win, endYesterday, todayStart) ==
  (IF stateAtBoundary = "break" /\ ~hasType(win, "break_end")
   THEN << Row("break_end", endYesterday - 1) >> ELSE <<>>)
  \o (IF ~hasType(win, "out")
      THEN << Row("out", endYesterday) >> ELSE <<>>)
  \o (IF ~hasType(win, "in")
      THEN << Row("in", todayStart) >> ELSE <<>>)
  \o (IF stateAtBoundary = "break" /\ ~hasBreakStartNext(win, todayStart)
      THEN << Row("break_start", todayStart + 1) >> ELSE <<>>)

\* the rows one employee gets, in insertion order
RolloverInserts(stateAtBoundary, win, endYesterday, todayStart) ==
  IF stateAtBoundary = "in" \/ stateAtBoundary = "break"
  THEN (IF stateAtBoundary = "break" /\ ~hasType(win, "break_end")
        THEN << Row("break_end", endYesterday - 1) >> ELSE <<>>)
       \o (IF ~hasType(win, "out")
           THEN << Row("out", endYesterday) >> ELSE <<>>)
       \o (IF ~hasType(win, "in")
           THEN << Row("in", todayStart) >> ELSE <<>>)
       \o (IF stateAtBoundary = "break" /\ ~hasBreakStartNext(win, todayStart)
           THEN << Row("break_start", todayStart + 1) >> ELSE <<>>)
  ELSE <<>>

RolloverWindow(log, endYesterday, todayStart) ==
  windowPunches(log, endYesterday - 2, todayStart + 2)

RECURSIVE SumOver(_, _)
SumOver(f, S) ==
  IF S = {} THEN 0
  ELSE LET x == CHOOSE y \in S : TRUE IN f[x] + SumOver(f, S \ {x})

\* the two concurrent asynchronous calls of the interleaved model
Procs == {1, 2}

ProcIdle ==
  [kind |-> "idle", pc |-> "idle", emp |-> 0, d |-> 0, nowAt |-> 0, days |-> 0,
   i |-> 0, bnd |-> 0, snap |-> <<>>, todo |-> <<>>, win |-> {}, plan |-> <<>>,
   count |-> 0, fresh |-> FALSE]

NoRun ==
  [op |-> "none", day |-> 0, emp |-> 0, before |-> [e \in Employees |-> <<>>],
   st |-> [e \in Employees |-> "out"], act |-> {}, affected |-> 0,
   repeat |-> FALSE, did |-> {}, err |-> "none", status |-> 0,
   planFor |-> 0, plan |-> <<>>, orig |-> [e \in Employees |-> <<>>],
   acted |-> <<>>, order |-> <<>>, at |-> 0, calls |-> 0, type |-> "none"]

\* no rollover trigger yet
NoTick == [kind |-> "none", day |-> 0, out |-> 0, in |-> 0, ok |-> TRUE]

\* the scheduler is left out: no timer, the zone clock stands still, and
\* no /hours page is looked at
TimerIdle ==
  /\ tz = "none"
  /\ serverTz = "NY"
  /\ utc = 0
  /\ timers = <<>>
  /\ fired = <<>>
  /\ tick = NoTick
  /\ up = TRUE
  /\ rolled = {}
  /\ shown = <<>>
  /\ own = <<>>

\* nyLocalToUTC is not looked at on its own
ConvIdle ==
  /\ cDate = 0
  /\ cTime = <<0, 0, 0>>
  /\ cInstant = <<>>

\* getStateAt is not looked at on its own
CallIdle ==
  /\ gPunches = <<>>
  /\ gBoundary = 0
  /\ gOther = <<>>
  /\ gResult = <<>>

\* no employee is logged in
NoSessions == [e \in Employees |-> "none"]

\* the run before this one was a rollover of the same civil date and
\* nothing but the clock changed since
RepeatsRollover(d) == run.op = "rollover" /\ run.day = d

\* the pass over the active employees
RolloverPass ==
  LET d == civilDay(now)
      todayStart == todayStartUTC(d)
      endYesterday == endYesterdayUTC(d)
  IN \E st \in [Employees -> States] :
       /\ \A e \in Employees :
            st[e] \in IF e \in active
                      THEN StatesAtBoundary(punches[e], endYesterday)
                      ELSE {"out"}
       /\ LET ins == [e \in Employees |->
                        IF e \in active
                        THEN RolloverInserts(st[e],
                               RolloverWindow(punches[e], endYesterday, todayStart),
                               endYesterday, todayStart)
                        ELSE <<>>]
          IN /\ punches' = [e \in Employees |-> punches[e] \o ins[e]]
             /\ run' = [NoRun EXCEPT !.op = "rollover", !.day = d,
                          !.before = punches, !.st = st, !.act = active,
                          !.affected = SumOver([e \in Employees |-> Len(ins[e])], Employees),
                          !.repeat = RepeatsRollover(d)]

performMidnightRollover ==
  /\ RolloverPass
  /\ UNCHANGED <<active, now, accepted, hoursVars, callVars, convVars, sessionVars, viewVars, timerVars, raceVars>>

\* ------------------------------------------------------ ensureBackfillForUser
\* the rows of one boundary, in insertion order
BackfillRows(state, boundary) ==
  LET outTime == boundary - 1
      inTime == boundary
  IN << Row("out", outTime), Row("in", inTime) >>
     \o (IF state = "break" THEN << Row("break_start", inTime + 1) >> ELSE <<>>)

\* exists.length === 0 for the window of a boundary
BackfillWindowEmpty(log, boundary) ==
  LET outTime == boundary - 1
      inTime == boundary
      windowStart == outTime - 2
      windowEnd == inTime + 2
  IN InWindow(log, windowStart, windowEnd) = {}

BackfillInserts(log, snap, boundary) ==
  LET state == getStateAt(snap, boundary)
  IN IF (state = "in" \/ state = "break") /\ BackfillWindowEmpty(log, boundary)
     THEN BackfillRows(state, boundary)
     ELSE <<>>

\* for (let i = days; i >= 1; i--), on the log as the loop leaves it; did
\* holds the boundaries it inserted for, each with the state found there,
\* acted every boundary of the loop, oldest first, with the state found
\* there and the employee's log as it was when the loop came to it
RECURSIVE BackfillLoop(_, _, _, _)
BackfillLoop(log, snap, d, i) ==
  IF i < 1 THEN [log |-> log, inserted |-> 0, did |-> {}, acted |-> <<>>]
  ELSE LET boundary == nyLocalToUTC(d - (i - 1))
           ins == BackfillInserts(log, snap, boundary)
           rest == BackfillLoop(log \o ins, snap, d, i - 1)
       IN [log |-> rest.log,
           inserted |-> rest.inserted + (IF ins # <<>> THEN 1 ELSE 0),
           did |-> rest.did \cup (IF ins # <<>>
                                  THEN { <<boundary, getStateAt(snap, boundary)>> }
                                  ELSE {}),
           acted |-> << [boundary |-> boundary,
                         state |-> getStateAt(snap, boundary),
                         log |-> log] >> \o rest.acted]

ensureBackfillForUser(userId, days) ==
  LET d == civilDay(now)
      startUTC == nyLocalToUTC(d - days)
  IN \E snap \in OrderByPunchedAt(punches[userId], InWindow(punches[userId], startUTC, now)) :
       LET r == BackfillLoop(punches[userId], snap, d, days)
       IN /\ punches' = [punches EXCEPT ![userId] = r.log]
          /\ run' = [NoRun EXCEPT !.op = "backfill", !.day = d, !.emp = userId,
                       !.before = punches, !.affected = r.inserted,
                       !.did = r.did]
          /\ UNCHANGED <<active, now, accepted, hoursVars, callVars, convVars, sessionVars, viewVars, timerVars, raceVars>>

\* ------------------------------------------------------ POST /punch/:type
\* punch_type of "ORDER BY punched_at DESC LIMIT 1"; "none" for no row
RecentPunchTypes(log) ==
  IF log = <<>> THEN {"none"}
  ELSE { log[i].type : i \in { j \in DOMAIN log : \A k \in DOMAIN log : log[k].at <= log[j].at } }

\* PunchAllowed that lets an employee on break punch out
PunchAllowedOutOnBreak(type, last) ==
  CASE type = "break_start" -> last = "in" \/ last = "break_end"
    [] type = "break_end" -> last = "break_start"
    [] type = "in" -> last = "none" \/ last = "out"
    [] type = "out" -> last = "in" \/ last = "break_end" \/ last = "break_start"
    [] OTHER -> FALSE

PunchAllowed(type, last) ==
  CASE type = "break_start" -> last = "in" \/ last = "break_end"
    [] type = "break_end" -> last = "break_start"
    [] type = "in" -> last = "none" \/ last = "out"
    [] type = "out" -> last = "in" \/ last = "break_end"
    [] OTHER -> FALSE

\* The store stamps the row with its clock (DEFAULT NOW()), which has moved
\* on since the request before this one: t is the instant of this request.
\* PunchAccepted that stores the row in place of the employee's last row
PunchAcceptedOverLast(userId, type, t) ==
  /\ accepted < MaxPunches
  /\ t > now
  /\ \E last \in RecentPunchTypes(punches[userId]) : PunchAllowed(type, last)
  /\ punches' = [punches EXCEPT ![userId] =
                   Append(SubSeq(@, 1, Len(@) - 1), Row(type, t))]
  /\ now' = t
  /\ accepted' = accepted + 1
  /\ run' = [NoRun EXCEPT !.op = "punch", !.emp = userId]

PunchAccepted(userId, type, t) ==
  /\ accepted < MaxPunches
  /\ t > now
  /\ \E last \in RecentPunchTypes(punches[userId]) : PunchAllowed(type, last)
  /\ punches' = [punches EXCEPT ![userId] = Append(@, Row(type, t))]
  /\ now' = t
  /\ accepted' = accepted + 1
  /\ run' = [NoRun EXCEPT !.op = "punch", !.emp = userId]

PunchRequest(userId, type, t) ==
  /\ PunchAccepted(userId, type, t)
  /\ UNCHANGED <<active, hoursVars, callVars, convVars, sessionVars, viewVars, timerVars, raceVars>>

\* ------------------------------------------------------ admin, clock
\* POST /admin/employees/:id/delete with remove_from_list
DeactivateEmployee(e) ==
  /\ e \in active
  /\ active' = active \ {e}
  /\ run' = [NoRun EXCEPT !.op = "admin", !.emp = e]
  /\ UNCHANGED <<punches, now, accepted, hoursVars, callVars, convVars, sessionVars, viewVars, timerVars, raceVars>>

\* The clock reaches the next observed instant.  Of the last operation only
\* this is kept: that it was a rollover of the civil date still current.
Tick ==
  /\ \E t \in Instants :
       /\ t > now
       /\ \A u \in Instants : u > now => t <= u
       /\ now' = t
       /\ run' = IF run.op = "rollover" /\ run.day = civilDay(t)
                 THEN [NoRun EXCEPT !.op = "rollover", !.day = run.day]
                 ELSE NoRun
  /\ UNCHANGED <<punches, active, accepted, hoursVars, callVars, convVars, sessionVars, viewVars, timerVars, raceVars>>

Init ==
  /\ punches = [e \in Employees |-> <<>>]
  /\ active = Employees
  /\ now = 0
  /\ accepted = 0
  /\ run = NoRun
  /\ hPunches = <<>>
  /\ hCurrentTime = Null
  /\ hWall = 0
  /\ hResult = <<>>
  /\ proc = [p \in Procs |-> ProcIdle]
  /\ overlap = {}
  /\ session = NoSessions
  /\ TimerIdle
  /\ CallIdle
  /\ ConvIdle

Next ==
  \/ Tick
  \/ \E e \in Employees, type \in Types, t \in Instants : PunchRequest(e, type, t)
  \/ performMidnightRollover
  \/ \E e \in Employees, days \in 1 .. MaxBackfillDays : ensureBackfillForUser(e, days)
  \/ \E e \in Employees : DeactivateEmployee(e)

Spec == Init /\ [][Next]_vars

\* ====================================================== properties
\* rows of employee e added by the last operation
Added(e) == SubSeq(punches[e], Len(run.before[e]) + 1, Len(punches[e]))

HasRow(log, type, lo, hi) ==
  \E i \in DOMAIN log : log[i].type = type /\ lo <= log[i].at /\ log[i].at <= hi

\* C1: a performMidnightRollover run that directly follows a run for the
\* same civil date (only the clock moved in between) inserts nothing for
\* any employee and returns affected = 0.
C1_RolloverIdempotent ==
  (run.op = "rollover" /\ run.repeat)
    => (run.affected = 0 /\ punches = run.before)

\* C2: after performMidnightRollover every active employee whose state at
\* endOfPriorDay was 'in' or 'break' has an 'out' in [endOfPriorDay - 2,
\* midnight] and an 'in' in [midnight, midnight + 2].
C2_BracketedBoundary ==
  run.op = "rollover" =>
    \A e \in run.act :
      run.st[e] \in {"in", "break"} =>
        /\ HasRow(punches[e], "out",
                  endYesterdayUTC(run.day) - 2, todayStartUTC(run.day))
        /\ HasRow(punches[e], "in",
                  todayStartUTC(run.day), todayStartUTC(run.day) + 2)

\* C3: for an active employee on break at endOfPriorDay with an empty
\* window, performMidnightRollover appends exactly break_end at
\* endOfPriorDay - 1, out at endOfPriorDay, in at startOfNewDay
\* (= endOfPriorDay + 1) and break_start at startOfNewDay + 1, in this order.
C3_BreakRollover ==
  run.op = "rollover" =>
    \A e \in run.act :
      LET E == endYesterdayUTC(run.day)
          T == todayStartUTC(run.day)
      IN (run.st[e] = "break" /\ RolloverWindow(run.before[e], E, T) = {})
           => /\ T = E + 1
              /\ punches[e] = run.before[e] \o
                   << Row("break_end", E - 1), Row("out", E),
                      Row("in", E + 1), Row("break_start", E + 2) >>

C3_Witness ==
  /\ run.op = "rollover"
  /\ \E e \in run.act :
       /\ run.st[e] = "break"
       /\ RolloverWindow(run.before[e], endYesterdayUTC(run.day),
                         todayStartUTC(run.day)) = {}
       /\ Len(Added(e)) = 4

\* C4: ensureBackfillForUser, at a boundary where the employee is on break
\* and for which it inserts, inserts a break_end at boundary - 2 and an out
\* at boundary - 1.
C4_BackfillBreakEnd ==
  run.op = "backfill" =>
    \A b \in run.did :
      b[2] = "break" =>
        /\ HasRow(Added(run.emp), "break_end", b[1] - 2, b[1] - 2)
        /\ HasRow(Added(run.emp), "out", b[1] - 1, b[1] - 1)

\* C10: performMidnightRollover leaves the log of an active employee whose
\* state at endOfPriorDay is 'out' as it was.
C10_OutUntouched ==
  run.op = "rollover" =>
    \A e \in run.act :
      run.st[e] = "out" => punches[e] = run.before[e]

\* an employee in state 'out' with punches inside the window, next to an
\* employee for whom the same run inserted
C10_Witness ==
  /\ run.op = "rollover"
  /\ \E e \in run.act :
       /\ run.st[e] = "out"
       /\ RolloverWindow(run.before[e], endYesterdayUTC(run.day),
                         todayStartUTC(run.day)) # {}
       /\ punches[e] = run.before[e]
  /\ run.affected > 0

\* every row of log is in later, at its place, with its type and timestamp
StillThere(log, later) ==
  /\ Len(log) <= Len(later)
  /\ \A i \in DOMAIN log : later[i] = log[i]

\* C19: a punch request, performMidnightRollover and ensureBackfillForUser
\* leave every row that was in the log of any employee in that log, with
\* its type and timestamp: they only append.
C19_AppendOnly ==
  [][run'.op \in {"punch", "rollover", "backfill"}
       => \A e \in Employees : StillThere(punches[e], punches'[e])]_vars

C19_Witness ==
  /\ run.op = "backfill"
  /\ run.before[run.emp] # <<>>
  /\ Len(punches[run.emp]) > Len(run.before[run.emp])
  /\ \E e \in Employees : e # run.emp /\ Len(punches[e]) >= 3

\* ------------------------------------------------------ GET /dashboard
\* isPunchedIn / isOnBreak from the type of punches[0] of
\* "ORDER BY punched_at DESC LIMIT 20"; "none" for no row
dashboardState(lastPunchType) ==
  CASE lastPunchType = "in" \/ lastPunchType = "break_end" -> "in"
    [] lastPunchType = "break_start" -> "break"
    [] OTHER -> "out"

\* the states the dashboard can show for a log: rows with the same
\* punched_at come first in any order
DashboardStates(log) == { dashboardState(t) : t \in RecentPunchTypes(log) }

\* C31: the state the dashboard shows is the state getStateAt gives for
\* all of the employee's punches at the current instant, for every log
\* that punch requests, performMidnightRollover and ensureBackfillForUser
\* produce one at a time.
C31_DashboardIsStateNow ==
  \A e \in Employees :
    \A shownState \in DashboardStates(punches[e]) :
      \A resolved \in StatesAtBoundary(punches[e], now) : shownState = resolved

\* the break_start rows that put the employee on break at the boundary:
\* at or before it, after every row of another type, before every other
\* break_start
PutOnBreak(log, boundaryUTC) ==
  { log[i] : i \in { j \in DOMAIN log :
      /\ log[j].type = "break_start"
      /\ log[j].at <= boundaryUTC
      /\ \A k \in DOMAIN log :
           log[k].at <= boundaryUTC =>
             IF log[k].type = "break_start" THEN log[j].at <= log[k].at
             ELSE log[k].at <= log[j].at } }

\* C37: the break_end that performMidnightRollover inserts at
\* endOfPriorDay - 1 s is strictly later than the break_start that put the
\* employee on break, whenever up to endOfPriorDay that break_start was.
C37_BreakEndAfterBreakStart ==
  run.op = "rollover" =>
    \A e \in Employees :
      \A i \in DOMAIN Added(e) :
        Added(e)[i].type = "break_end" =>
          \A p \in PutOnBreak(run.before[e], endYesterdayUTC(run.day)) :
            p.at < Added(e)[i].at

\* ====================================================== POST /punch/:type alone
\* Requests of the employees, one at a time, from an empty store; the store
\* clock moves on by one or two seconds from one request to the next, up
\* to MaxClock.  A request names one of the four types or one the route
\* does not know.
MaxClock == 6
RequestTypes == Types \cup {"lunch"}

\* PunchStored that runs the INSERT also after a refused validation
PunchStoredAlways(log, type, t, ok) == Append(log, Row(type, t))

\* the INSERT at the end of the route, reached only when no validation
\* returned before it
PunchStored(log, type, t, ok) == IF ok THEN Append(log, Row(type, t)) ELSE log

\* the whole route: 400 for a type not in `allowed`, a redirect with an
\* error for a transition the most recent punch does not allow, 500 when
\* the store rejects a query, else the INSERT and a redirect
PunchRoute(userId, type, t, fails) ==
  /\ t > now
  /\ t <= now + 2
  /\ t <= MaxClock
  /\ now' = t
  /\ IF type \notin Types
     THEN /\ ~fails
          /\ punches' = punches
          /\ run' = [NoRun EXCEPT !.op = "POST /punch", !.emp = userId, !.type = type,
                       !.before = punches, !.err = "invalid", !.status = 400]
     ELSE IF fails
     THEN /\ punches' = punches
          /\ run' = [NoRun EXCEPT !.op = "POST /punch", !.emp = userId, !.type = type,
                       !.before = punches, !.err = "store", !.status = 500]
     ELSE \E last \in RecentPunchTypes(punches[userId]) :
            /\ punches' = [punches EXCEPT ![userId] =
                             PunchStored(@, type, t, PunchAllowed(type, last))]
            /\ run' = [NoRun EXCEPT !.op = "POST /punch", !.emp = userId, !.type = type,
                         !.before = punches,
                         !.err = IF PunchAllowed(type, last) THEN "none" ELSE "refused",
                         !.status = 302]
  /\ UNCHANGED <<active, accepted, hoursVars, callVars, convVars, sessionVars, viewVars, timerVars, raceVars>>

NextPunch ==
  \E e \in Employees, type \in RequestTypes, t \in 1 .. MaxClock, fails \in BOOLEAN :
    PunchRoute(e, type, t, fails)

SpecPunch == Init /\ [][NextPunch]_vars

\* the type t may follow the type prev in (in (break_start break_end)* out)*
MayFollow(prev, t) ==
  CASE prev = "none" -> t = "in"
    [] prev = "in" -> t \in {"break_start", "out"}
    [] prev = "break_start" -> t = "break_end"
    [] prev = "break_end" -> t \in {"break_start", "out"}
    [] prev = "out" -> t = "in"
    [] OTHER -> FALSE

WellFormedPrefix(s) ==
  \A i \in DOMAIN s : MayFollow(IF i = 1 THEN "none" ELSE s[i - 1].type, s[i].type)

\* C32: from an empty log, with punch requests handled one at a time and
\* stamped later and later, every employee's log in order of time is a
\* prefix of a well-formed history (in (break_start break_end)* out)*.
C32_LogIsWellFormedPrefix ==
  \A e \in Employees :
    /\ WellFormedPrefix(SortByTime(punches[e]))
    /\ \A i, j \in DOMAIN punches[e] : i < j => punches[e][i].at < punches[e][j].at

\* a session with a break, closed, and the next session begun
C32_Witness ==
  /\ run.op = "POST /punch"
  /\ \E e \in Employees :
       [i \in DOMAIN punches[e] |-> punches[e][i].type]
         = <<"in", "break_start", "break_end", "out", "in">>

\* C33: a punch request that is rejected (unknown type, or a transition
\* the most recent punch does not allow) leaves every log as it was; an
\* accepted request appends one row of the requested type to the log of
\* the requesting employee and changes no other log.
C33_RejectedOrOneRow ==
  run.op = "POST /punch" =>
    /\ run.err = "invalid" <=> run.type \notin Types
    /\ run.err = "refused" =>
         \E last \in RecentPunchTypes(run.before[run.emp]) : ~MayFollow(last, run.type)
    /\ run.err # "none" => punches = run.before
    /\ run.err = "none" =>
         /\ punches[run.emp] = Append(run.before[run.emp], Row(run.type, now))
         /\ \A e \in Employees \ {run.emp} : punches[e] = run.before[e]

\* an out refused on break, after the other employee punched in
C33_Witness ==
  /\ run.op = "POST /punch"
  /\ run.err = "refused"
  /\ run.type = "out"
  /\ Len(punches[run.emp]) = 2
  /\ punches = run.before
  /\ \E e \in Employees \ {run.emp} : punches[e] # <<>>

\* ====================================================== calculateHours alone
\* Inputs of calculateHours: punches on a grid of quarter hours, in
\* ascending time, either any sequence of at most MaxLen punch types or a
\* well-formed closed session with at most MaxBreaks breaks.
SlotSeconds == 15 * 60
SlotTime(k) == k * SlotSeconds

RECURSIVE AnySequences(_, _)
AnySequences(lo, n) ==
  IF n = 0 THEN { <<>> }
  ELSE { <<>> } \cup
       UNION { { <<Row(t, SlotTime(k))>> \o rest : rest \in AnySequences(k + 1, n - 1) }
               : t \in Types, k \in lo .. MaxSlot }

RECURSIVE SessionTails(_, _)
SessionTails(lo, j) ==
  { <<Row("out", SlotTime(k))>> : k \in lo .. MaxSlot } \cup
  (IF j = 0 THEN {}
   ELSE UNION { { <<Row("break_start", SlotTime(be[1])), Row("break_end", SlotTime(be[2]))>> \o tail
                  : tail \in SessionTails(be[2] + 1, j - 1) }
                : be \in { x \in (lo .. MaxSlot) \X (lo .. MaxSlot) : x[1] < x[2] } })

ClosedSessions ==
  UNION { { <<Row("in", SlotTime(a))>> \o tail : tail \in SessionTails(a + 1, MaxBreaks) }
          : a \in 0 .. MaxSlot }

HourInputs == AnySequences(0, MaxLen) \cup ClosedSessions
HourEnds == { Null, SlotTime(MaxSlot), SlotTime(MaxSlot + 1) }
HourWalls == { SlotTime(MaxSlot + 1), SlotTime(MaxSlot + 2) }

InitHours ==
  /\ punches = [e \in Employees |-> <<>>]
  /\ active = Employees
  /\ now = 0
  /\ accepted = 0
  /\ run = NoRun
  /\ hPunches \in HourInputs
  /\ hCurrentTime \in HourEnds
  /\ hWall \in HourWalls
  /\ hResult = <<>>
  /\ proc = [p \in Procs |-> ProcIdle]
  /\ overlap = {}
  /\ session = NoSessions
  /\ TimerIdle
  /\ CallIdle
  /\ ConvIdle

HoursCall ==
  /\ hResult = <<>>
  /\ proc = [p \in Procs |-> ProcIdle]
  /\ overlap = {}
  /\ hResult' = << calculateHours(hPunches, hCurrentTime, hWall) >>
  /\ UNCHANGED <<storeVars, raceVars, sessionVars, viewVars, timerVars, callVars, convVars, hPunches, hCurrentTime, hWall>>

NextHours == HoursCall

SpecHours == InitHours /\ [][NextHours]_vars

\* the state of the pass after the last punch
FinalPass == HoursFold(HoursInit, SortByTime(hPunches))

TypesOf(s) == [i \in DOMAIN s |-> s[i].type]

\* C5: in@a, break_start@b, out@c gives exactly b - a: the out on break
\* adds nothing to what break_start added.
C5_OutOnBreakNoDoubleCount ==
  (hResult # <<>> /\ TypesOf(hPunches) = <<"in", "break_start", "out">>)
    => hResult[1].num = hPunches[2].at - hPunches[1].at

\* C6: in@a, break_start@b with nothing after gives exactly b - a, whatever
\* openEnd is.
C6_StillOnBreakNothingAdded ==
  (hResult # <<>> /\ TypesOf(hPunches) = <<"in", "break_start">>)
    => hResult[1].num = hPunches[2].at - hPunches[1].at

\* in@t0, (break_start, break_end)*, out@t1 with ascending instants
IsClosedSession(s) ==
  /\ Len(s) >= 2
  /\ Len(s) % 2 = 0
  /\ s[1].type = "in"
  /\ s[Len(s)].type = "out"
  /\ \A i \in 2 .. Len(s) - 1 :
       s[i].type = IF i % 2 = 0 THEN "break_start" ELSE "break_end"
  /\ \A i \in 1 .. Len(s) - 1 : s[i].at < s[i + 1].at

RECURSIVE BreakSeconds(_, _)
BreakSeconds(s, i) ==
  IF i + 1 >= Len(s) THEN 0
  ELSE (s[i + 1].at - s[i].at) + BreakSeconds(s, i + 2)

\* C7: a well-formed closed session yields (t1 - t0) minus the sum of its
\* break durations, as seconds over SecondsPerHour.
C7_ClosedSession ==
  (hResult # <<>> /\ IsClosedSession(hPunches))
    => /\ hResult[1].num =
            (hPunches[Len(hPunches)].at - hPunches[1].at) - BreakSeconds(hPunches, 2)
       /\ hResult[1].den = SecondsPerHour

\* in@0, break_start@30m, break_end@45m, out@90m gives 75 minutes
C7_Witness ==
  /\ hPunches = << Row("in", 0), Row("break_start", 30 * 60),
                   Row("break_end", 45 * 60), Row("out", 90 * 60) >>
  /\ hResult = << [num |-> 75 * 60, den |-> 60 * 60] >>

\* C8: with openEnd omitted and the session still open ('in') at the end,
\* the open session adds no time: the result is what the pass had summed.
C8_NoOpenEndNoTime ==
  (hResult # <<>> /\ hCurrentTime = Null
     /\ FinalPass.inTime # Null /\ FinalPass.breakStart = Null)
    => hResult[1].num = FinalPass.total

\* the break_end punches that the pass meets with no break open
StrayBreakEnds(s) ==
  { i \in DOMAIN s :
      /\ s[i].type = "break_end"
      /\ HoursFold(HoursInit, SubSeq(s, 1, i - 1)).breakStart = Null }

\* C26: a break_end met when the employee is not on break has the effect of
\* an 'in' at the same instant: with that break_end replaced by an 'in' of
\* the same timestamp the result is the same, for every sequence and every
\* openEnd.
C26_StrayBreakEndIsIn ==
  hResult # <<>> =>
    LET s == SortByTime(hPunches)
    IN \A i \in StrayBreakEnds(s) :
         calculateHours([s EXCEPT ![i].type = "in"], hCurrentTime, hWall) = hResult[1]

\* a stray break_end in an open session, with time counted after it
C26_Witness ==
  /\ hResult # <<>>
  /\ Len(hPunches) = MaxLen
  /\ \E i \in StrayBreakEnds(hPunches) :
       /\ HoursFold(HoursInit, SubSeq(hPunches, 1, i - 1)).inTime # Null
       /\ i < Len(hPunches)
       /\ hPunches[i + 1].type = "out"
  /\ hResult[1].num > 0

C28_TotalNeverNegative ==
  hResult # <<>> =>
    /\ hResult[1].num \in Nat
    /\ hResult[1].den = SecondsPerHour

\* a break_start with no session, then a session: only the session counts
C28_Witness ==
  /\ hResult # <<>>
  /\ TypesOf(hPunches) = <<"break_start", "in", "out">>
  /\ hCurrentTime # Null
  /\ hCurrentTime >= hPunches[3].at
  /\ hResult[1].num = hPunches[3].at - hPunches[2].at

\* calculateHours gives another result for another openEnd
DependsOnOpenEnd ==
  \E other \in HourEnds : calculateHours(hPunches, other, hWall) # hResult[1]

\* C35: for every punch sequence with distinct timestamps, the result of
\* calculateHours depends on openEnd exactly when getStateAt of the same
\* sequence at its last instant is 'in'; for 'out' and 'break' it is the
\* same for every openEnd.
C35_OpenEndMattersIffIn ==
  (hResult # <<>> /\ hPunches # <<>>) =>
    (DependsOnOpenEnd <=> getStateAt(hPunches, hPunches[Len(hPunches)].at) = "in")

\* a malformed sequence that ends in an open session for both
C35_Witness ==
  /\ hResult # <<>>
  /\ TypesOf(hPunches) = <<"out", "break_start", "break_end">>
  /\ getStateAt(hPunches, hPunches[3].at) = "in"
  /\ DependsOnOpenEnd

\* ====================================================== interleaved calls
\* performMidnightRollover and ensureBackfillForUser are async functions:
\* every `await pool.query(...)` is a point at which another call in flight
\* may run.  One step executes the query a call waits for and runs the
\* call on to its next query.

\* StoreInsert on a table with a unique (employee_id, punch_type, punched_at)
StoreInsertUnique(log, row) ==
  IF \E i \in DOMAIN log : log[i] = row THEN log ELSE Append(log, row)

\* INSERT INTO punches (employee_id, punch_type, punched_at) VALUES (...)
StoreInsert(log, row) == Append(log, row)

\* logs written by punch requests before the calls start
RaceLogs ==
  { <<>>,
    << Row("in", DayLen \div 2) >>,
    << Row("in", DayLen \div 2), Row("break_start", DayLen - 4) >>,
    << Row("in", DayLen \div 2), Row("out", DayLen - 4) >> }

InitRace ==
  /\ punches \in [Employees -> RaceLogs]
  /\ active = Employees
  /\ now = DayLen + (DayLen \div 2)
  /\ accepted = 0
  /\ run = NoRun
  /\ hPunches = <<>>
  /\ hCurrentTime = Null
  /\ hWall = 0
  /\ hResult = <<>>
  /\ proc = [p \in Procs |-> ProcIdle]
  /\ overlap = {}
  /\ session = NoSessions
  /\ TimerIdle
  /\ CallIdle
  /\ ConvIdle

Done(r) == [r EXCEPT !.pc = "done", !.plan = <<>>, !.fresh = FALSE]

PlansOutIn(plan) ==
  /\ \E i \in DOMAIN plan : plan[i].type = "out"
  /\ \E i \in DOMAIN plan : plan[i].type = "in"

\* another call has decided to insert out and in for the same employee and
\* boundary and has not inserted yet
Overlaps(p, e, bnd, plan) ==
  /\ PlansOutIn(plan)
  /\ \E q \in Procs \ {p} :
       /\ proc[q].fresh
       /\ proc[q].emp = e
       /\ proc[q].bnd = bnd
       /\ PlansOutIn(proc[q].plan)

Noted(p, e, bnd, plan) ==
  IF Overlaps(p, e, bnd, plan) THEN overlap \cup { <<e, bnd>> } ELSE overlap

\* ---- ensureBackfillForUser, step by step
\* the next i <= from at which the loop body reaches its window query
RECURSIVE BackfillNextIndex(_, _, _)
BackfillNextIndex(snap, d, from) ==
  IF from < 1 THEN 0
  ELSE IF getStateAt(snap, nyLocalToUTC(d - (from - 1))) \in {"in", "break"}
  THEN from
  ELSE BackfillNextIndex(snap, d, from - 1)

BackfillContinue(r, from) ==
  LET j == BackfillNextIndex(r.snap, r.d, from)
  IN IF j = 0 THEN Done(r)
     ELSE [r EXCEPT !.pc = "exists", !.i = j, !.bnd = r.d - (j - 1),
                    !.plan = <<>>, !.fresh = FALSE]

BackfillStart(p, userId, days) ==
  /\ proc[p].kind = "idle"
  /\ proc' = [proc EXCEPT ![p] =
       [ProcIdle EXCEPT !.kind = "backfill", !.pc = "snapshot", !.emp = userId,
                        !.d = civilDay(now), !.nowAt = now, !.days = days]]
  /\ UNCHANGED <<storeVars, hoursVars, callVars, convVars, sessionVars, viewVars, timerVars, overlap>>

BackfillSnapshot(p) ==
  LET r == proc[p]
  IN /\ r.kind = "backfill" /\ r.pc = "snapshot"
     /\ \E snap \in OrderByPunchedAt(punches[r.emp],
                      InWindow(punches[r.emp], nyLocalToUTC(r.d - r.days), r.nowAt)) :
          proc' = [proc EXCEPT ![p] = BackfillContinue([r EXCEPT !.snap = snap], r.days)]
     /\ UNCHANGED <<storeVars, hoursVars, callVars, convVars, sessionVars, viewVars, timerVars, overlap>>

BackfillExists(p) ==
  LET r == proc[p]
      boundary == nyLocalToUTC(r.bnd)
      plan == BackfillRows(getStateAt(r.snap, boundary), boundary)
  IN /\ r.kind = "backfill" /\ r.pc = "exists"
     /\ IF BackfillWindowEmpty(punches[r.emp], boundary)
        THEN /\ proc' = [proc EXCEPT ![p] =
                  [r EXCEPT !.pc = "insert", !.plan = plan, !.fresh = TRUE]]
             /\ overlap' = Noted(p, r.emp, r.bnd, plan)
        ELSE /\ proc' = [proc EXCEPT ![p] = BackfillContinue(r, r.i - 1)]
             /\ UNCHANGED overlap
     /\ UNCHANGED <<storeVars, hoursVars, callVars, convVars, sessionVars, viewVars, timerVars>>

BackfillInsert(p) ==
  LET r == proc[p]
  IN /\ r.kind = "backfill" /\ r.pc = "insert"
     /\ punches' = [punches EXCEPT ![r.emp] = StoreInsert(@, Head(r.plan))]
     /\ proc' = [proc EXCEPT ![p] =
          IF Len(r.plan) > 1
          THEN [r EXCEPT !.plan = Tail(r.plan), !.fresh = FALSE]
          ELSE BackfillContinue([r EXCEPT !.count = r.count + 1], r.i - 1)]
     /\ UNCHANGED <<active, now, accepted, run, hoursVars, callVars, convVars, sessionVars, viewVars, timerVars, overlap>>

\* ---- performMidnightRollover, step by step
RolloverNextEmployee(r) ==
  IF r.todo = <<>> THEN Done(r)
  ELSE [r EXCEPT !.pc = "window", !.emp = Head(r.todo), !.todo = Tail(r.todo),
                 !.plan = <<>>, !.fresh = FALSE]

\* SELECT id FROM employees WHERE active = TRUE, rows in any order
RECURSIVE AnyOrder(_)
AnyOrder(S) ==
  IF S = {} THEN { <<>> }
  ELSE UNION { { <<x>> \o rest : rest \in AnyOrder(S \ {x}) } : x \in S }

RolloverStart(p) ==
  /\ proc[p].kind = "idle"
  /\ proc' = [proc EXCEPT ![p] =
       [ProcIdle EXCEPT !.kind = "rollover", !.pc = "employees",
                        !.d = civilDay(now), !.bnd = civilDay(now), !.nowAt = now]]
  /\ UNCHANGED <<storeVars, hoursVars, callVars, convVars, sessionVars, viewVars, timerVars, overlap>>

RolloverEmployees(p) ==
  LET r == proc[p]
  IN /\ r.kind = "rollover" /\ r.pc = "employees"
     /\ \E employees \in AnyOrder(active) :
          proc' = [proc EXCEPT ![p] = RolloverNextEmployee([r EXCEPT !.todo = employees])]
     /\ UNCHANGED <<storeVars, hoursVars, callVars, convVars, sessionVars, viewVars, timerVars, overlap>>

RolloverWindowQuery(p) ==
  LET r == proc[p]
  IN /\ r.kind = "rollover" /\ r.pc = "window"
     /\ proc' = [proc EXCEPT ![p] =
          [r EXCEPT !.pc = "upto",
                    !.win = RolloverWindow(punches[r.emp], endYesterdayUTC(r.d),
                                           todayStartUTC(r.d))]]
     /\ UNCHANGED <<storeVars, hoursVars, callVars, convVars, sessionVars, viewVars, timerVars, overlap>>

RolloverUpToBoundary(p) ==
  LET r == proc[p]
  IN /\ r.kind = "rollover" /\ r.pc = "upto"
     /\ \E st \in StatesAtBoundary(punches[r.emp], endYesterdayUTC(r.d)) :
          LET plan == RolloverInserts(st, r.win, endYesterdayUTC(r.d), todayStartUTC(r.d))
          IN IF plan = <<>>
             THEN /\ proc' = [proc EXCEPT ![p] = RolloverNextEmployee(r)]
                  /\ UNCHANGED overlap
             ELSE /\ proc' = [proc EXCEPT ![p] =
                       [r EXCEPT !.pc = "insert", !.plan = plan, !.fresh = TRUE]]
                  /\ overlap' = Noted(p, r.emp, r.bnd, plan)
     /\ UNCHANGED <<storeVars, hoursVars, callVars, convVars, sessionVars, viewVars, timerVars>>

RolloverInsert(p) ==
  LET r == proc[p]
  IN /\ r.kind = "rollover" /\ r.pc = "insert"
     /\ punches' = [punches EXCEPT ![r.emp] = StoreInsert(@, Head(r.plan))]
     /\ proc' = [proc EXCEPT ![p] =
          IF Len(r.plan) > 1
          THEN [r EXCEPT !.plan = Tail(r.plan), !.fresh = FALSE, !.count = r.count + 1]
          ELSE RolloverNextEmployee([r EXCEPT !.count = r.count + 1])]
     /\ UNCHANGED <<active, now, accepted, run, hoursVars, callVars, convVars, sessionVars, viewVars, timerVars, overlap>>

NextRace ==
  \/ \E p \in Procs, e \in Employees, days \in 1 .. MaxBackfillDays : BackfillStart(p, e, days)
  \/ \E p \in Procs : BackfillSnapshot(p)
  \/ \E p \in Procs : BackfillExists(p)
  \/ \E p \in Procs : BackfillInsert(p)
  \/ \E p \in Procs : RolloverStart(p)
  \/ \E p \in Procs : RolloverEmployees(p)
  \/ \E p \in Procs : RolloverWindowQuery(p)
  \/ \E p \in Procs : RolloverUpToBoundary(p)
  \/ \E p \in Procs : RolloverInsert(p)

SpecRace == InitRace /\ [][NextRace]_vars

CountRows(log, type, at) ==
  Cardinality({ i \in DOMAIN log : log[i].type = type /\ log[i].at = at })

AllDone == \A p \in Procs : proc[p].pc = "done"

\* C9: when two concurrent calls (two ensureBackfillForUser, or
\* ensureBackfillForUser and performMidnightRollover) have both finished
\* their look at the same employee and boundary before either inserted, the
\* log ends with two 'out' and two 'in' for that boundary.
C9_RaceDuplicates ==
  AllDone =>
    \A o \in overlap :
      /\ CountRows(punches[o[1]], "out", nyLocalToUTC(o[2]) - 1) >= 2
      /\ CountRows(punches[o[1]], "in", nyLocalToUTC(o[2])) >= 2

\* ensureBackfillForUser racing performMidnightRollover left duplicates
C9_Witness ==
  /\ AllDone
  /\ \E p, q \in Procs : proc[p].kind = "backfill" /\ proc[q].kind = "rollover"
  /\ \E o \in overlap :
       /\ CountRows(punches[o[1]], "out", nyLocalToUTC(o[2]) - 1) = 2
       /\ CountRows(punches[o[1]], "in", nyLocalToUTC(o[2])) = 2


\* two ensureBackfillForUser calls left duplicates
C9_TwoBackfills ==
  /\ AllDone
  /\ \A p \in Procs : proc[p].kind = "backfill"
  /\ \E o \in overlap :
       /\ CountRows(punches[o[1]], "out", nyLocalToUTC(o[2]) - 1) = 2
       /\ CountRows(punches[o[1]], "in", nyLocalToUTC(o[2])) = 2

\* ------------------------------------------------------ requests in flight
\* The route awaits the SELECT of the most recent punch and then the
\* INSERT; between the two another request may run.  A step executes the
\* query a request waits for.
\* the SELECT and the validations after it: the request goes on to its
\* INSERT or ends with a redirect
PunchSelect(p, userId, type) ==
  /\ proc[p].kind = "idle"
  /\ \E last \in RecentPunchTypes(punches[userId]) :
       proc' = [proc EXCEPT ![p] =
                  IF PunchAllowed(type, last)
                  THEN [ProcIdle EXCEPT !.kind = "punch", !.pc = "insert",
                                        !.emp = userId, !.todo = <<type>>]
                  ELSE ProcIdle]
  /\ UNCHANGED <<punches, active, now, accepted, run, overlap, hoursVars, callVars, convVars, sessionVars, viewVars, timerVars>>

\* the INSERT, stamped by the store's clock, and the redirect
PunchInsert(p) ==
  /\ proc[p].kind = "punch"
  /\ proc[p].pc = "insert"
  /\ now < MaxClock
  /\ now' = now + 1
  /\ punches' = [punches EXCEPT ![proc[p].emp] =
                   StoreInsert(@, Row(proc[p].todo[1], now + 1))]
  /\ proc' = [proc EXCEPT ![p] = ProcIdle]
  /\ UNCHANGED <<active, accepted, run, overlap, hoursVars, callVars, convVars, sessionVars, viewVars, timerVars>>

NextPunchRace ==
  \/ \E p \in Procs, e \in Employees, type \in Types : PunchSelect(p, e, type)
  \/ \E p \in Procs : PunchInsert(p)

SpecPunchRace == Init /\ [][NextPunchRace]_vars

\* C34: also with two punch requests of an employee in flight at once, the
\* employee's log in order of time never holds two events of the same type
\* next to each other.
C34_NoTwoAdjacentAlike ==
  \A e \in Employees :
    LET s == SortByTime(punches[e])
    IN \A i \in 1 .. (Len(s) - 1) : s[i].type # s[i + 1].type

\* ====================================================== sessions
\* The requests of logged-in employees: the lazy backfill of the session
\* middleware and /dev/backfill-now, next to the rollover and the admin's
\* deactivation.  session[e] is "none" (not logged in), "open" (logged in,
\* rollover_checked unset) or "checked" (rollover_checked set).
LazyBackfillDays == 7

\* every result ensureBackfillForUser(userId, days) can have on a log
Backfills(log, days) ==
  LET d == civilDay(now)
      startUTC == nyLocalToUTC(d - days)
  IN { BackfillLoop(log, snap, d, days) :
         snap \in OrderByPunchedAt(log, InWindow(log, startUTC, now)) }

NoBackfill(log) == [log |-> log, inserted |-> 0, did |-> {}]

\* POST /login: only an active employee gets a session
Login(e) ==
  /\ e \in active
  /\ session[e] = "none"
  /\ session' = [session EXCEPT ![e] = "open"]
  /\ run' = [NoRun EXCEPT !.op = "login", !.emp = e]
  /\ UNCHANGED <<punches, active, now, accepted, hoursVars, callVars, convVars, raceVars, timerVars, viewVars>>

\* POST /logout
Logout(e) ==
  /\ session[e] # "none"
  /\ session' = [session EXCEPT ![e] = "none"]
  /\ run' = [NoRun EXCEPT !.op = "logout", !.emp = e]
  /\ UNCHANGED <<punches, active, now, accepted, hoursVars, callVars, convVars, raceVars, timerVars, viewVars>>

\* the logs a rejected query leaves behind in ensureBackfillForUser(userId,
\* days): the rows of the loop up to the failing statement
BackfillsBrokenOff(log, days) ==
  UNION { LET rows == SubSeq(r.log, Len(log) + 1, Len(r.log))
          IN { log \o SubSeq(rows, 1, k) :
                 k \in 0 .. (IF rows = <<>> THEN 0 ELSE Len(rows) - 1) }
          : r \in Backfills(log, days) }

\* SessionRequest that sets rollover_checked in the finally branch
SessionRequestFlagAlways(e, fails) ==
  /\ session[e] # "none"
  /\ IF session[e] = "checked"
     THEN /\ ~fails
          /\ punches' = punches
          /\ run' = [NoRun EXCEPT !.op = "request", !.day = civilDay(now), !.emp = e,
                       !.before = punches, !.status = 200]
     ELSE IF fails
     THEN \E left \in BackfillsBrokenOff(punches[e], LazyBackfillDays) :
            /\ punches' = [punches EXCEPT ![e] = left]
            /\ run' = [NoRun EXCEPT !.op = "request", !.day = civilDay(now), !.emp = e,
                         !.before = punches, !.calls = 1, !.err = "backfill",
                         !.status = 200]
     ELSE \E r \in Backfills(punches[e], LazyBackfillDays) :
            /\ punches' = [punches EXCEPT ![e] = r.log]
            /\ run' = [NoRun EXCEPT !.op = "request", !.day = civilDay(now), !.emp = e,
                         !.before = punches, !.affected = r.inserted, !.did = r.did,
                         !.calls = 1, !.status = 200]
  /\ session' = [session EXCEPT ![e] = "checked"]
  /\ UNCHANGED <<active, now, accepted, hoursVars, callVars, convVars, raceVars, timerVars, viewVars>>

\* the session middleware in front of a request of a logged-in employee,
\* the route after it answering 200: with rollover_checked set it does
\* nothing; otherwise it calls ensureBackfillForUser(id, 7) (run.calls
\* counts the calls the middleware makes), which fails
\* (a query is rejected; the catch swallows it) or ends well (the flag is
\* set); next() is called in every case
SessionRequest(e, fails) ==
  /\ session[e] # "none"
  /\ IF session[e] = "checked"
     THEN /\ ~fails
          /\ punches' = punches
          /\ run' = [NoRun EXCEPT !.op = "request", !.day = civilDay(now), !.emp = e,
                       !.before = punches, !.status = 200]
          /\ session' = session
     ELSE IF fails
     THEN /\ \E left \in BackfillsBrokenOff(punches[e], LazyBackfillDays) :
               /\ punches' = [punches EXCEPT ![e] = left]
               /\ run' = [NoRun EXCEPT !.op = "request", !.day = civilDay(now), !.emp = e,
                            !.before = punches, !.calls = 1, !.err = "backfill",
                            !.status = 200]
          /\ session' = session
     ELSE /\ \E r \in Backfills(punches[e], LazyBackfillDays) :
               /\ punches' = [punches EXCEPT ![e] = r.log]
               /\ run' = [NoRun EXCEPT !.op = "request", !.day = civilDay(now), !.emp = e,
                            !.before = punches, !.affected = r.inserted, !.did = r.did,
                            !.calls = 1, !.status = 200]
          /\ session' = [session EXCEPT ![e] = "checked"]
  /\ UNCHANGED <<active, now, accepted, hoursVars, callVars, convVars, raceVars, timerVars, viewVars>>

\* GET /dev/backfill-now?days= of a logged-in employee: the middleware,
\* then the route
DevBackfillNow(e, days) ==
  /\ session[e] # "none"
  /\ \E m \in (IF session[e] = "open"
               THEN Backfills(punches[e], LazyBackfillDays)
               ELSE { NoBackfill(punches[e]) }) :
       \E r \in Backfills(m.log, days) :
         /\ punches' = [punches EXCEPT ![e] = r.log]
         /\ run' = [NoRun EXCEPT !.op = "backfill", !.day = civilDay(now), !.emp = e,
                      !.before = punches, !.affected = m.inserted + r.inserted,
                      !.did = m.did \cup r.did,
                      !.calls = IF session[e] = "open" THEN 1 ELSE 0]
  /\ session' = [session EXCEPT ![e] = "checked"]
  /\ UNCHANGED <<active, now, accepted, hoursVars, callVars, convVars, raceVars, timerVars, viewVars>>

\* logs of employees who punched on day 0 and not since; the clock stands
\* at the middle of day 1 while the requests are served, and no rollover has
\* run yet
SessionLogs ==
  { <<>>,
    << Row("in", DayLen \div 2) >>,
    << Row("in", DayLen \div 2), Row("break_start", (DayLen \div 2) + 1) >> }

InitSession ==
  /\ punches \in [Employees -> SessionLogs]
  /\ active = Employees
  /\ now = DayLen + (DayLen \div 2)
  /\ accepted = 0
  /\ run = NoRun
  /\ hPunches = <<>>
  /\ hCurrentTime = Null
  /\ hWall = 0
  /\ hResult = <<>>
  /\ proc = [p \in Procs |-> ProcIdle]
  /\ overlap = {}
  /\ session = NoSessions
  /\ TimerIdle
  /\ CallIdle
  /\ ConvIdle

NextSession ==
  \/ performMidnightRollover
  \/ \E e \in Employees : DeactivateEmployee(e)
  \/ \E e \in Employees : Login(e)
  \/ \E e \in Employees : Logout(e)
  \/ \E e \in Employees, fails \in BOOLEAN : SessionRequest(e, fails)
  \/ \E e \in Employees, days \in 1 .. MaxBackfillDays : DevBackfillNow(e, days)

SpecSession == InitSession /\ [][NextSession]_vars

\* C11: performMidnightRollover and ensureBackfillForUser (from the session
\* middleware or /dev/backfill-now) insert rows only for employees whose
\* active flag is TRUE.
C11_SyntheticOnlyForActive ==
  run.op \in {"rollover", "backfill", "request"} =>
    \A e \in Employees : Added(e) # <<>> => e \in active

\* C30: the middleware calls ensureBackfillForUser on a request of a
\* logged-in employee exactly when rollover_checked is unset; the flag is
\* set only by a backfill that ended well and stays set while the session
\* lasts, so no later request of the session runs one; after a failed
\* backfill the request is served all the same and the flag is still
\* unset for the next request.
C30_LazyBackfillOncePerSession ==
  [][\A e \in Employees :
       /\ (run'.op \in {"request", "backfill"} /\ run'.emp = e) =>
            run'.calls = (IF session[e] = "open" THEN 1 ELSE 0)
       /\ (run'.op = "request" /\ run'.emp = e) =>
            /\ run'.status = 200
            /\ session'[e] = (IF session[e] = "open" /\ run'.err # "none"
                              THEN "open" ELSE "checked")
            /\ session[e] = "checked" => punches' = punches
       /\ (session'[e] = "checked" /\ session[e] # "checked") =>
            (run'.emp = e /\ run'.calls = 1 /\ run'.err = "none")
       /\ session[e] = "checked" => session'[e] \in {"checked", "none"}]_vars

\* a request whose backfill failed after its first INSERT, the flag still
\* unset
C30_Witness ==
  /\ run.op = "request"
  /\ run.err = "backfill"
  /\ run.calls = 1
  /\ run.status = 200
  /\ Len(Added(run.emp)) = 1
  /\ session[run.emp] = "open"

\* ====================================================== NY civil time
\* The zone clock counts seconds from 00:00 UTC of day 0.  New York is on
\* standard time (GMT-5) or daylight time (GMT-4); on a time line with a
\* transition the wall clocks change at 02:00 local of day TransitionDay.
TransitionDay == 1
DaySeconds == 24 * SecondsPerHour
Standard == -5 * SecondsPerHour
Daylight == -4 * SecondsPerHour

OffsetBefore(k) == IF k = "fall" THEN Daylight ELSE Standard
OffsetAfter(k) == IF k = "spring" THEN Daylight ELSE Standard
TransitionUTC(k) ==
  TransitionDay * DaySeconds + 2 * SecondsPerHour - OffsetBefore(k)

\* the offset of America/New_York at an instant
nyOffset(k, u) == IF u < TransitionUTC(k) THEN OffsetBefore(k) ELSE OffsetAfter(k)

\* Date.UTC(y, m - 1, d, h, mi, s), the date being a day number
DateUTC(d, h, mi, s) == d * DaySeconds + h * SecondsPerHour + mi * 60 + s

\* NY wall clock of an instant, and its civil date (formatToParts)
nyWall(k, u) == u + nyOffset(k, u)
nyCivilDate(k, u) == nyWall(k, u) \div DaySeconds

\* hours of "GMT-5" / "GMT-4", as formatted for the instant and parsed back
shortOffsetHours(k, u) == nyOffset(k, u) \div SecondsPerHour

\* offsetMin of the probe at 12:00 UTC of date d
offsetMin(k, d) == shortOffsetHours(k, DateUTC(d, 12, 0, 0)) * 60

\* todayStartUTC and endYesterdayUTC of performMidnightRollover for date d
TodayStartUTCOf(k, d) == DateUTC(d, 0, 0, 0) + (-offsetMin(k, d)) * 60
EndYesterdayUTCOf(k, d) == DateUTC(d - 1, 23, 59, 59) + (-offsetMin(k, d)) * 60

\* what performMidnightRollover(now) works with: the civil date of now and
\* the instants of the synthetic out and in
RolloverDates(k, u) ==
  LET d == nyCivilDate(k, u)
  IN [day |-> d, out |-> EndYesterdayUTCOf(k, d), in |-> TodayStartUTCOf(k, d)]

\* ------------------------------------------------------ scheduleMidnightRollover
\* the instant at which the wall clock of the server process reads w;
\* a wall time that occurs twice or never is resolved with the offset
\* before the transition
fromLocalWall(z, k, w) ==
  IF z = "UTC" THEN w
  ELSE IF w - OffsetBefore(k) < TransitionUTC(k)
       THEN w - OffsetBefore(k)
       ELSE w - OffsetAfter(k)

parseNYDateToUTC(z, k, d) ==
  LET localDate == fromLocalWall(z, k, DateUTC(d, 0, 0, 0))
      nyDate == fromLocalWall(z, k, nyWall(k, localDate))
      offset == localDate - nyDate
      targetNY == fromLocalWall(z, k, DateUTC(d, 0, 0, 0))
      targetNYDate == fromLocalWall(z, k, nyWall(k, targetNY))
  IN targetNYDate + offset

MinDelay == 1

\* the instant for which scheduleMidnightRollover, called at u, arms the timer
scheduleMidnightRollover(z, k, u) ==
  LET d == nyCivilDate(k, u)
      midnightNYUTC == parseNYDateToUTC(z, k, d)
      nextMidnightUTC == midnightNYUTC + 24 * 60 * 60
      delay == nextMidnightUTC - u
  IN u + (IF delay > MinDelay THEN delay ELSE MinDelay)

ZoneDays == 0 .. (MaxZoneDay + 1)
EndOfTimeLine == (MaxZoneDay + 1) * DaySeconds

\* instants at which the server starts or a request comes in
ZoneInstants ==
  { DateUTC(d, h, 0, 0) : d \in 0 .. MaxZoneDay, h \in 0 .. 23 }
StartInstants == { DateUTC(0, 10, 0, 0), DateUTC(0, 22, 0, 0) }

\* index of the timer that is due first
FirstDue ==
  CHOOSE i \in DOMAIN timers : \A j \in DOMAIN timers : timers[i] <= timers[j]

Without(q, i) == SubSeq(q, 1, i - 1) \o SubSeq(q, i + 1, Len(q))

\* app.listen callback: scheduleMidnightRollover()
InitTimer ==
  /\ punches = [e \in Employees |-> <<>>]
  /\ active = Employees
  /\ now = 0
  /\ accepted = 0
  /\ run = NoRun
  /\ hPunches = <<>>
  /\ hCurrentTime = Null
  /\ hWall = 0
  /\ hResult = <<>>
  /\ proc = [p \in Procs |-> ProcIdle]
  /\ overlap = {}
  /\ session = NoSessions
  /\ tz \in {"none", "spring", "fall"}
  /\ serverTz \in {"NY", "UTC"}
  /\ utc \in StartInstants
  /\ timers = << scheduleMidnightRollover(serverTz, tz, utc) >>
  /\ fired = [d \in ZoneDays |-> 0]
  /\ tick = NoTick
  /\ up = TRUE
  /\ rolled = {}
  /\ shown = <<>>
  /\ own = <<>>
  /\ CallIdle
  /\ ConvIdle

\* The setTimeout callback: performMidnightRollover(new Date()), which ends
\* well or throws, and in the finally clause scheduleMidnightRollover().
\* When the rollover throws, the promise of the async callback is rejected
\* after the finally clause and nothing handles the rejection: the runtime
\* either only warns or ends the process (its default), and with the process
\* its timers are gone.
TimerFires(ok, exits) ==
  /\ up
  /\ timers # <<>>
  /\ timers[FirstDue] < EndOfTimeLine
  /\ exits => ~ok
  /\ utc' = timers[FirstDue]
  /\ tick' = [kind |-> "timer", ok |-> ok] @@ RolloverDates(tz, utc')
  /\ fired' = [fired EXCEPT ![nyCivilDate(tz, utc')] = @ + 1]
  /\ LET rearmed == Append(Without(timers, FirstDue),
                           scheduleMidnightRollover(serverTz, tz, utc'))
     IN timers' = IF exits THEN <<>> ELSE rearmed
  /\ up' = ~exits
  /\ UNCHANGED <<storeVars, hoursVars, callVars, convVars, raceVars, sessionVars, viewVars, tz, serverTz>>

\* /admin/rollover-now, requested at one of the observed instants:
\* performMidnightRollover(new Date())
RolloverNow(ok) ==
  /\ up
  /\ utc \in ZoneInstants
  /\ tick' = [kind |-> "manual", ok |-> ok] @@ RolloverDates(tz, utc)
  /\ UNCHANGED <<storeVars, hoursVars, callVars, convVars, raceVars, sessionVars, viewVars,
                 tz, serverTz, utc, timers, fired, up>>

\* time passes, while the process runs, up to an instant not later than
\* the next timer
ClockTo(t) ==
  /\ up
  /\ utc < t
  /\ \A i \in DOMAIN timers : t <= timers[i]
  /\ utc' = t
  /\ UNCHANGED <<storeVars, hoursVars, callVars, convVars, raceVars, sessionVars, viewVars,
                 tz, serverTz, timers, fired, tick, up>>

NextTimer ==
  \/ \E ok \in BOOLEAN, exits \in BOOLEAN : TimerFires(ok, exits)
  \/ \E ok \in BOOLEAN : RolloverNow(ok)
  \/ \E t \in ZoneInstants : ClockTo(t)

SpecTimer == InitTimer /\ [][NextTimer]_vars

\* C12: the synthetic out of performMidnightRollover for date D lies in NY
\* civil day D - 1 and the synthetic in lies in civil day D.
C12_OutInPriorAndNewDay ==
  tick.kind # "none" =>
    /\ nyCivilDate(tz, tick.out) = tick.day - 1
    /\ nyCivilDate(tz, tick.in) = tick.day

\* C14: while the server runs, on every NY civil day that begins after it
\* started the timer callback runs performMidnightRollover at most once, and
\* exactly once by the time the day is over.
C14_OncePerCivilDay ==
  up => \A d \in 1 .. MaxZoneDay :
          /\ fired[d] <= 1
          /\ nyCivilDate(tz, utc) > d => fired[d] = 1

\* C15: once the rollover timer has fired, whether the rollover ended well
\* or threw, there is a pending rollover timer.
C15_RearmedAfterEveryFiring ==
  (\E d \in ZoneDays : fired[d] > 0) => timers # <<>>

\* C38: from the start of the server on exactly one rollover timer is
\* armed at any moment, whatever firings, successful or failed, came before,
\* and a timer armed at the current instant has a delay of at least
\* MinDelay.
C38_ExactlyOneTimer ==
  /\ Len(timers) = 1
  /\ scheduleMidnightRollover(serverTz, tz, utc) - utc >= MinDelay

\* ====================================================== GET /hours
\* Date.UTC(year, month - 1, day, 23, 59, 59) - offset
getNYEndOfDayUTCFromMMDDYYYY(d) == d * DayLen + (DayLen - 1)

\* dailyHours[dateKey]: the rows of one civil date, in the order of the query
dayPunchesOf(rows, d) == SelectSeq(rows, LAMBDA p : civilDay(p.at) = d)

stillPunchedIn(dayPunches, isToday) ==
  isToday /\ dayPunches[Len(dayPunches)].type \in {"in", "break_end", "break_start"}

effectiveEnd(dayPunches, d, t) ==
  LET isToday == d = civilDay(t)
  IN IF stillPunchedIn(dayPunches, isToday) THEN t
     ELSE IF ~isToday THEN getNYEndOfDayUTCFromMMDDYYYY(d)
     ELSE Null

\* hoursByDate for the default date range, which holds every date of the
\* model's time line: civil date -> seconds
hoursByDate(rows, t) ==
  [d \in { civilDay(rows[i].at) : i \in DOMAIN rows } |->
     LET dayPunches == dayPunchesOf(rows, d)
     IN calculateHours(dayPunches, effectiveEnd(dayPunches, d, t), t).num]

\* the page of employee e; rolled and own are noted as they are at this
\* moment
HoursView(e) ==
  /\ \E rows \in OrderByPunchedAt(punches[e], DOMAIN punches[e]) :
       shown' = [emp |-> e, rolled |-> rolled, own |-> own[e],
                 hours |-> hoursByDate(rows, now)]
  /\ UNCHANGED <<storeVars, hoursVars, callVars, convVars, raceVars, sessionVars, timerVars, rolled, own>>

SplitPunch(e, type, t) ==
  /\ PunchAccepted(e, type, t)
  /\ own' = [own EXCEPT ![e] = Append(@, Row(type, t))]
  /\ UNCHANGED <<active, hoursVars, callVars, convVars, raceVars, sessionVars, timerVars, rolled, shown>>

SplitRollover ==
  /\ RolloverPass
  /\ rolled' = rolled \cup {civilDay(now)}
  /\ UNCHANGED <<active, now, accepted, hoursVars, callVars, convVars, raceVars, sessionVars, timerVars,
                 shown, own>>

\* the clock moves on; the record of the last operation and the page that
\* was shown are dropped
SplitTick ==
  /\ \E t \in Instants :
       /\ t > now
       /\ \A u \in Instants : u > now => t <= u
       /\ now' = t
  /\ run' = NoRun
  /\ shown' = <<>>
  /\ UNCHANGED <<punches, active, accepted, hoursVars, callVars, convVars, raceVars, sessionVars,
                 timerVars, rolled, own>>

InitSplit ==
  /\ punches = [e \in Employees |-> <<>>]
  /\ active = Employees
  /\ now = 0
  /\ accepted = 0
  /\ run = NoRun
  /\ hPunches = <<>>
  /\ hCurrentTime = Null
  /\ hWall = 0
  /\ hResult = <<>>
  /\ proc = [p \in Procs |-> ProcIdle]
  /\ overlap = {}
  /\ session = NoSessions
  /\ tz = "none"
  /\ serverTz = "NY"
  /\ utc = 0
  /\ timers = <<>>
  /\ fired = <<>>
  /\ tick = NoTick
  /\ up = TRUE
  /\ rolled = {}
  /\ shown = <<>>
  /\ own = [e \in Employees |-> <<>>]
  /\ CallIdle
  /\ ConvIdle

NextSplit ==
  \/ SplitTick
  \/ \E e \in Employees, type \in Types, t \in Instants : SplitPunch(e, type, t)
  \/ SplitRollover
  \/ \E e \in Employees : HoursView(e)

SpecSplit == InitSplit /\ [][NextSplit]_vars

\* C13: when /hours is shown for an employee whose own punches are exactly
\* in@t0 on civil day D and out@t1 on day D + 1, and a rollover of day D + 1
\* has run, the page shows endOfDay(D) - t0 for day D and
\* t1 - startOfDay(D + 1) for day D + 1.
C13_SplitDayTotals ==
  (/\ shown # <<>>
   /\ Len(shown.own) = 2
   /\ shown.own[1].type = "in"
   /\ shown.own[2].type = "out"
   /\ civilDay(shown.own[2].at) = civilDay(shown.own[1].at) + 1
   /\ civilDay(shown.own[2].at) \in shown.rolled)
    => LET t0 == shown.own[1].at
           t1 == shown.own[2].at
           D == civilDay(t0)
       IN /\ {D, D + 1} \subseteq DOMAIN shown.hours
          /\ shown.hours[D] = getNYEndOfDayUTCFromMMDDYYYY(D) - t0
          /\ shown.hours[D + 1] = t1 - todayStartUTC(D + 1)

\* ------------------------------------------------------ worked time
\* The first employee punched on day 0 (nothing, an 'in' at noon, or an 'in'
\* and a break_start), the others not yet; they go on punching while
\* rollovers run; own keeps the rows the employees punched themselves.
InitWorked ==
  /\ punches \in { f \in [Employees -> SessionLogs] : \A e \in Employees : e > 1 => f[e] = <<>> }
  /\ own = punches
  /\ active = Employees
  /\ now = (DayLen \div 2) + 1
  /\ accepted = 0
  /\ run = NoRun
  /\ hPunches = <<>>
  /\ hCurrentTime = Null
  /\ hWall = 0
  /\ hResult = <<>>
  /\ proc = [p \in Procs |-> ProcIdle]
  /\ overlap = {}
  /\ session = NoSessions
  /\ tz = "none"
  /\ serverTz = "NY"
  /\ utc = 0
  /\ timers = <<>>
  /\ fired = <<>>
  /\ tick = NoTick
  /\ up = TRUE
  /\ rolled = {}
  /\ shown = <<>>
  /\ CallIdle
  /\ ConvIdle

NextWorked ==
  \/ SplitTick
  \/ \E e \in Employees, type \in Types, t \in Instants : SplitPunch(e, type, t)
  \/ SplitRollover

SpecWorked == InitWorked /\ [][NextWorked]_vars

\* the instants an openEnd is taken from: not before the clock, later than
\* every row of the log
OpenEndsAfter(log) ==
  { t \in Instants \cup {(MaxDay + 1) * DayLen} :
      t >= now /\ \A i \in DOMAIN log : log[i].at < t }

\* C36: performMidnightRollover never increases an employee's worked time:
\* for a fixed openEnd, calculateHours over the whole log with the rows of
\* the rollovers is not larger than over the employee's own punches alone,
\* also when the employee is on break over midnight and later ends the
\* break and punches out.
C36_RolloverAddsNoTime ==
  \A e \in Employees :
    \A openEnd \in OpenEndsAfter(punches[e]) :
      calculateHours(punches[e], openEnd, openEnd).num
        <= calculateHours(own[e], openEnd, openEnd).num

\* ====================================================== getStateAt alone
\* Inputs of getStateAt: at most MaxLen punches of any type at the instants
\* 0 .. MaxStamp, in any order and with equal instants allowed.
RECURSIVE StateInputs(_)
StateInputs(n) ==
  IF n = 0 THEN { <<>> }
  ELSE { <<>> } \cup
       { <<Row(t, k)>> \o rest :
           t \in Types, k \in 0 .. MaxStamp, rest \in StateInputs(n - 1) }

\* the arrays that hold the elements of s in some order
Reorderings(s) ==
  { [i \in DOMAIN s |-> s[f[i]]] :
      f \in { g \in [DOMAIN s -> DOMAIN s] : \A i, j \in DOMAIN s : g[i] = g[j] => i = j } }

InitState ==
  /\ punches = [e \in Employees |-> <<>>]
  /\ active = Employees
  /\ now = 0
  /\ accepted = 0
  /\ run = NoRun
  /\ hPunches = <<>>
  /\ hCurrentTime = Null
  /\ hWall = 0
  /\ hResult = <<>>
  /\ proc = [p \in Procs |-> ProcIdle]
  /\ overlap = {}
  /\ session = NoSessions
  /\ TimerIdle
  /\ gPunches \in StateInputs(MaxLen)
  /\ gBoundary \in 0 .. MaxStamp
  /\ gOther = <<>>
  /\ gResult = <<>>
  /\ ConvIdle

\* getStateAt(gPunches, gBoundary) and getStateAt(other, gBoundary)
StateCall(other) ==
  /\ gResult = <<>>
  /\ gOther' = other
  /\ gResult' = << getStateAt(gPunches, gBoundary), getStateAt(other, gBoundary) >>
  /\ UNCHANGED <<storeVars, hoursVars, raceVars, sessionVars, viewVars, timerVars,
                 gPunches, gBoundary, convVars>>

NextState == \E other \in Reorderings(gPunches) : StateCall(other)

SpecState == InitState /\ [][NextState]_vars

\* the state after the events of s, read from the last event backwards
RECURSIVE StateAfter(_)
StateAfter(s) ==
  IF s = <<>> THEN "out"
  ELSE LET t == s[Len(s)].type
           earlier == StateAfter(SubSeq(s, 1, Len(s) - 1))
       IN CASE t = "in" -> "in"
            [] t = "break_end" -> "in"
            [] t = "out" -> "out"
            [] t = "break_start" -> IF earlier = "in" THEN "break" ELSE earlier

\* C16: getStateAt(punches, boundary) is the state after the events with
\* timestamp <= boundary taken in an ascending order of time (in -> 'in',
\* break_start -> 'break' only from 'in', break_end -> 'in', out -> 'out',
\* from 'out'); later events have no influence and no event gives 'out'.
C16_StateIsFoldUpToBoundary ==
  gResult # <<>> =>
    LET upTo == { i \in DOMAIN gPunches : gPunches[i].at <= gBoundary }
    IN /\ gResult[1] \in { StateAfter(arr) : arr \in OrderByPunchedAt(gPunches, upTo) }
       /\ upTo = {} => gResult[1] = "out"

C16_Witness ==
  /\ gResult # <<>>
  /\ Len(gPunches) = MaxLen
  /\ gResult[1] = "break"
  /\ \E i \in DOMAIN gPunches : gPunches[i].at > gBoundary
  /\ \E i, j \in DOMAIN gPunches : i < j /\ gPunches[j].at < gPunches[i].at

\* C17: getStateAt returns the same state for every order in which the
\* same punches are supplied.
C17_OrderOfInputIrrelevant ==
  gResult # <<>> => gResult[1] = gResult[2]

\* ====================================================== lookback of a week
\* An employee comes back after up to MaxMissed days on which no rollover
\* ran: the log holds nothing, or an 'in' of day 0 (at noon or in the last
\* seconds of the day), or a closed session of day 0.
MissedLogs ==
  { <<>>, << Row("in", DayLen \div 2), Row("out", DayLen \div 2 + 1) >> }
  \cup { << Row("in", t) >> : t \in {DayLen \div 2} \cup ((DayLen - 4) .. (DayLen - 1)) }

InitMissed ==
  /\ punches \in [Employees -> MissedLogs]
  /\ active = Employees
  /\ now \in { d * DayLen + k : d \in 1 .. MaxMissed, k \in {0, DayLen \div 2} }
  /\ accepted = 0
  /\ run = NoRun
  /\ hPunches = <<>>
  /\ hCurrentTime = Null
  /\ hWall = 0
  /\ hResult = <<>>
  /\ proc = [p \in Procs |-> ProcIdle]
  /\ overlap = {}
  /\ session = NoSessions
  /\ TimerIdle
  /\ CallIdle
  /\ ConvIdle

\* ensureBackfillForUser(userId) with the default of days
NextMissed == \E e \in Employees : ensureBackfillForUser(e, LazyBackfillDays)

SpecMissed == InitMissed /\ [][NextMissed]_vars

\* the pairs of the boundaries first .. last, oldest first
RECURSIVE PairsFor(_, _)
PairsFor(first, last) ==
  IF first > last THEN <<>>
  ELSE << Row("out", nyLocalToUTC(first) - 1), Row("in", nyLocalToUTC(first)) >>
       \o PairsFor(first + 1, last)

\* C18: for an employee whose only punch is an 'in' n civil days ago
\* (n = 3 in particular), ensureBackfillForUser(employee, 7) appends one
\* out/in pair per missed midnight, out at boundary - 1 s and in at the
\* boundary, oldest boundary first, 2 * n events, and nothing else.
C18_PairPerMissedBoundary ==
  run.op = "backfill" =>
    LET log == run.before[run.emp]
    IN (Len(log) = 1 /\ log[1].type = "in" /\ civilDay(log[1].at) < run.day)
         => /\ punches[run.emp] = log \o PairsFor(civilDay(log[1].at) + 1, run.day)
            /\ run.affected = run.day - civilDay(log[1].at)

\* ------------------------------------------------------ a shorter lookback
\* ensureBackfillForUser(userId, days) after up to MaxMissed missed
\* midnights, with a lookback of 1 .. MaxBackfillDays days; the run keeps
\* what the loop found at each boundary
BackfillLookback(userId, days) ==
  LET d == civilDay(now)
      startUTC == nyLocalToUTC(d - days)
  IN \E snap \in OrderByPunchedAt(punches[userId], InWindow(punches[userId], startUTC, now)) :
       LET r == BackfillLoop(punches[userId], snap, d, days)
       IN /\ punches' = [punches EXCEPT ![userId] = r.log]
          /\ run' = [NoRun EXCEPT !.op = "backfill", !.day = d, !.emp = userId,
                       !.before = punches, !.affected = r.inserted,
                       !.did = r.did, !.acted = r.acted]
          /\ UNCHANGED <<active, now, accepted, hoursVars, callVars, convVars, sessionVars, viewVars, timerVars, raceVars>>

NextLookback ==
  \E e \in Employees, days \in 1 .. MaxBackfillDays : BackfillLookback(e, days)

SpecLookback == InitMissed /\ [][NextLookback]_vars

\* C25: at each of the last N boundaries the state ensureBackfillForUser
\* acts on is a state the State Resolver gives for the employee's complete
\* log up to that boundary, as the log is when the loop comes to the
\* boundary, however long before the lookback the open session started.
C25_StateOverCompleteLog ==
  run.op = "backfill" =>
    \A i \in DOMAIN run.acted :
      run.acted[i].state \in StatesAtBoundary(run.acted[i].log, run.acted[i].boundary)

\* ====================================================== store failures
\* A query of performMidnightRollover is rejected by the store.  The run
\* has no try / catch: the rejection ends it at that statement, the rows
\* inserted up to there stay (every INSERT is its own transaction).
FailStages == {"none", "employees", "window", "state", "insert"}

\* rows of the employee at whom the run fails: RolloverInserts, but for a
\* failing window query all the rows as if the window were empty
InsertsBeforeFailureAsIfEmpty(stage, ins, k) ==
  IF stage = "insert" THEN SubSeq(ins, 1, k - 1) ELSE ins

\* InsertsBeforeFailure of a loop that catches the rejection of an INSERT
\* and goes on with the employee's next row
InsertsSkippingFailed(stage, ins, k) ==
  IF stage = "insert" THEN SubSeq(ins, 1, k - 1) \o SubSeq(ins, k + 1, Len(ins)) ELSE <<>>

\* rows stored for the employee at whom the run fails: the k-th INSERT of
\* ins is the failing one, or a query before every INSERT
InsertsBeforeFailure(stage, ins, k) ==
  IF stage = "insert" THEN SubSeq(ins, 1, k - 1) ELSE <<>>

\* rows of "SELECT id FROM employees WHERE active = TRUE", in any order
ActiveOrders ==
  { o \in [1 .. Cardinality(active) -> active] :
      \A i, j \in 1 .. Cardinality(active) : o[i] = o[j] => i = j }

PositionIn(o, e) == CHOOSE i \in DOMAIN o : o[i] = e

\* the run fails at an INSERT of employee o[n] after at least one of the
\* rows ins[o[n]] of that employee was stored, the window of the employee
\* having been empty
BreaksOffPart(o, stage, n, k, ins) ==
  /\ stage = "insert"
  /\ k >= 2
  /\ RolloverWindow(punches[o[n]], endYesterdayUTC(civilDay(now)),
                    todayStartUTC(civilDay(now))) = {}

\* the run ends well and is the first one after a run of the same civil
\* date that broke off part way through an employee
FollowsBrokenRun(stage, d) ==
  /\ stage = "none"
  /\ run.op = "rollover"
  /\ run.day = d
  /\ run.err = "insert"
  /\ run.planFor \in active

\* POST /admin/rollover-now: performMidnightRollover(new Date()) over the
\* employees in the order o; for stage "none" the run ends well, for
\* "employees" the first query fails, otherwise the run fails at the
\* employee o[n]
AdminRolloverNow(o, stage, n, k) ==
  LET d == civilDay(now)
      todayStart == todayStartUTC(d)
      endYesterday == endYesterdayUTC(d)
  IN \E st \in [Employees -> States] :
       /\ stage = "none" => n = Len(o) + 1 /\ k = 0
       /\ stage = "employees" => n = 0 /\ k = 0
       /\ stage \in {"window", "state"} => n \in DOMAIN o /\ k = 0
       /\ stage = "insert" => n \in DOMAIN o
       /\ \A e \in Employees :
            st[e] \in IF e \in active
                      THEN StatesAtBoundary(punches[e], endYesterday)
                      ELSE {"out"}
       /\ LET ins == [e \in Employees |->
                        IF e \in active
                        THEN RolloverInserts(st[e],
                               RolloverWindow(punches[e], endYesterday, todayStart),
                               endYesterday, todayStart)
                        ELSE <<>>]
              done == [e \in Employees |->
                         IF e \notin active THEN <<>>
                         ELSE IF PositionIn(o, e) < n THEN ins[e]
                         ELSE IF PositionIn(o, e) = n
                              THEN InsertsBeforeFailure(stage, ins[e], k)
                              ELSE <<>>]
          IN /\ stage = "insert" => k \in DOMAIN ins[o[n]]
             /\ punches' = [e \in Employees |-> punches[e] \o done[e]]
             /\ run' = [NoRun EXCEPT !.op = "rollover", !.day = d,
                          !.emp = IF n \in DOMAIN o THEN o[n] ELSE 0,
                          !.before = punches, !.st = st, !.act = active,
                          !.affected = SumOver([e \in Employees |-> Len(done[e])], Employees),
                          !.err = stage, !.order = o, !.at = k,
                          !.status = IF stage = "none" THEN 200 ELSE 500,
                          !.planFor = IF BreaksOffPart(o, stage, n, k, ins) THEN o[n]
                                      ELSE IF FollowsBrokenRun(stage, d) THEN run.planFor
                                      ELSE 0,
                          !.plan = IF BreaksOffPart(o, stage, n, k, ins) THEN ins[o[n]]
                                   ELSE IF FollowsBrokenRun(stage, d) THEN run.plan
                                   ELSE <<>>]
       /\ UNCHANGED <<active, now, accepted, hoursVars, callVars, convVars, sessionVars,
                      viewVars, timerVars, raceVars>>

InitFail ==
  /\ punches \in [Employees -> SessionLogs]
  /\ active = Employees
  /\ now \in { DayLen, DayLen + 1 }
  /\ accepted = 0
  /\ run = NoRun
  /\ hPunches = <<>>
  /\ hCurrentTime = Null
  /\ hWall = 0
  /\ hResult = <<>>
  /\ proc = [p \in Procs |-> ProcIdle]
  /\ overlap = {}
  /\ session = NoSessions
  /\ TimerIdle
  /\ CallIdle
  /\ ConvIdle

NextFail ==
  \/ \E o \in ActiveOrders, stage \in FailStages, n \in 0 .. (Cardinality(Employees) + 1),
        k \in 0 .. 4 : AdminRolloverNow(o, stage, n, k)
  \/ \E e \in Employees : DeactivateEmployee(e)

SpecFail == InitFail /\ [][NextFail]_vars

\* C20: when the window query of an employee fails in
\* performMidnightRollover, the run inserts no row for that employee and
\* the caller gets an error (/admin/rollover-now answers 500).
C20_WindowFailureAborts ==
  (run.op = "rollover" /\ run.err = "window")
    => /\ Added(run.emp) = <<>>
       /\ run.status = 500

C20_Witness ==
  /\ run.op = "rollover"
  /\ run.err = "window"
  /\ "in" \in StatesAtBoundary(run.before[run.emp], endYesterdayUTC(run.day))
  /\ RolloverWindow(run.before[run.emp], endYesterdayUTC(run.day),
                    todayStartUTC(run.day)) = {}
  /\ \E e \in Employees : e # run.emp /\ Added(e) # <<>>

Occurrences(log, row) == Cardinality({ j \in DOMAIN log : log[j] = row })

\* C22: after a run that stored only some of an employee's synthetic rows
\* and failed, the next run, ending well, leaves every row of the complete
\* set (out and in, with break_end and break_start for a break) in the log
\* exactly once.
C22_NextRunCompletesTheSet ==
  (run.op = "rollover" /\ run.err = "none" /\ run.planFor # 0)
    => \A i \in DOMAIN run.plan :
         Occurrences(punches[run.planFor], run.plan[i]) = 1

\* the rows performMidnightRollover had for employee e in the last run
PlannedFor(e) ==
  RolloverInserts(run.st[e],
                  RolloverWindow(run.before[e], endYesterdayUTC(run.day),
                                 todayStartUTC(run.day)),
                  endYesterdayUTC(run.day), todayStartUTC(run.day))

\* C29: when a store operation fails while performMidnightRollover is at
\* the k-th active employee, the caller gets an error; the rows of the
\* employees before the k-th and the rows of the k-th stored before the
\* failure stay in the log, the employees after the k-th get no row in
\* that run.
C29_FailureAtKthEmployee ==
  (run.op = "rollover" /\ run.err \in {"window", "state", "insert"})
    => LET n == PositionIn(run.order, run.emp)
       IN /\ run.status = 500
          /\ \A e \in Employees : SubSeq(punches[e], 1, Len(run.before[e])) = run.before[e]
          /\ \A i \in DOMAIN run.order :
               Added(run.order[i]) =
                 IF i < n THEN PlannedFor(run.order[i])
                 ELSE IF i = n /\ run.err = "insert"
                      THEN SubSeq(PlannedFor(run.order[i]), 1, run.at - 1)
                      ELSE <<>>
          /\ \A e \in Employees \ run.act : Added(e) = <<>>

\* the run fails at the second INSERT of the first employee; the second
\* employee, punched in over midnight, is left without the pair
C29_Witness ==
  /\ run.op = "rollover"
  /\ run.err = "insert"
  /\ Len(run.order) = 2
  /\ run.emp = run.order[1]
  /\ run.at = 2
  /\ Len(Added(run.order[1])) = 1
  /\ Len(PlannedFor(run.order[1])) >= 2
  /\ Len(PlannedFor(run.order[2])) >= 2
  /\ Added(run.order[2]) = <<>>

\* ====================================================== calls in a row
\* ensureBackfillForUser(userId, days) called twice in a row: of the first
\* call the log it leaves is kept in run.before, of the second call what
\* it returns and inserts
BackfillTwice(userId, days) ==
  LET d == civilDay(now)
      startUTC == nyLocalToUTC(d - days)
  IN \E snap \in OrderByPunchedAt(punches[userId], InWindow(punches[userId], startUTC, now)) :
       LET first == BackfillLoop(punches[userId], snap, d, days)
       IN \E again \in OrderByPunchedAt(first.log, InWindow(first.log, startUTC, now)) :
            LET second == BackfillLoop(first.log, again, d, days)
            IN /\ punches' = [punches EXCEPT ![userId] = second.log]
               /\ run' = [NoRun EXCEPT !.op = "backfill", !.day = d, !.emp = userId,
                            !.before = [punches EXCEPT ![userId] = first.log],
                            !.affected = second.inserted, !.did = second.did,
                            !.repeat = TRUE]
               /\ UNCHANGED <<active, now, accepted, hoursVars, callVars, convVars,
                              sessionVars, viewVars, timerVars, raceVars>>

\* what a performMidnightRollover run for civil date d can make of a store:
\* the states it reads at the boundary and the store it leaves
RolloverOutcomes(store, d) ==
  LET todayStart == todayStartUTC(d)
      endYesterday == endYesterdayUTC(d)
      reads == { st \in [Employees -> States] :
                   \A e \in Employees :
                     st[e] \in IF e \in active
                               THEN StatesAtBoundary(store[e], endYesterday)
                               ELSE {"out"} }
  IN { [st |-> st,
        store |-> [e \in Employees |->
                     store[e] \o
                     (IF e \in active
                      THEN RolloverInserts(st[e],
                             RolloverWindow(store[e], endYesterday, todayStart),
                             endYesterday, todayStart)
                      ELSE <<>>)]] : st \in reads }

\* what an ensureBackfillForUser(userId, days) call on civil date d can make
\* of a log
BackfillOutcomes(log, d, days) ==
  { BackfillLoop(log, snap, d, days).log :
      snap \in OrderByPunchedAt(log, InWindow(log, nyLocalToUTC(d - days), now)) }

\* performMidnightRollover and then, with nothing in between,
\* ensureBackfillForUser(userId, days): run.orig is the store before the
\* two, run.before the store between them
RolloverThenBackfill(userId, days) ==
  LET d == civilDay(now)
  IN \E first \in RolloverOutcomes(punches, d) :
       \E log \in BackfillOutcomes(first.store[userId], d, days) :
         /\ punches' = [first.store EXCEPT ![userId] = log]
         /\ run' = [NoRun EXCEPT !.op = "rollover, backfill", !.day = d,
                      !.emp = userId, !.orig = punches, !.before = first.store,
                      !.act = active]
         /\ UNCHANGED <<active, now, accepted, hoursVars, callVars, convVars,
                        sessionVars, viewVars, timerVars, raceVars>>

\* ensureBackfillForUser(userId, days) and then, with nothing in between,
\* performMidnightRollover
BackfillThenRollover(userId, days) ==
  LET d == civilDay(now)
  IN \E log \in BackfillOutcomes(punches[userId], d, days) :
       LET between == [punches EXCEPT ![userId] = log]
       IN \E second \in RolloverOutcomes(between, d) :
            /\ punches' = second.store
            /\ run' = [NoRun EXCEPT !.op = "backfill, rollover", !.day = d,
                         !.emp = userId, !.orig = punches, !.before = between,
                         !.act = active]
            /\ UNCHANGED <<active, now, accepted, hoursVars, callVars, convVars,
                           sessionVars, viewVars, timerVars, raceVars>>

NextTwice ==
  \/ SplitTick
  \/ \E e \in Employees, type \in Types, t \in Instants : PunchRequest(e, type, t)
  \/ performMidnightRollover
  \/ \E e \in Employees, days \in 1 .. MaxBackfillDays : BackfillTwice(e, days)

SpecTwice == Init /\ [][NextTwice]_vars

NextPair ==
  \/ SplitTick
  \/ \E e \in Employees, type \in Types, t \in Instants : PunchRequest(e, type, t)
  \/ \E e \in Employees, days \in 1 .. MaxBackfillDays : RolloverThenBackfill(e, days)
  \/ \E e \in Employees, days \in 1 .. MaxBackfillDays : BackfillThenRollover(e, days)

SpecPair == Init /\ [][NextPair]_vars

AroundBoundary(log, d) ==
  SelectSeq(log, LAMBDA p : endYesterdayUTC(d) - 2 <= p.at /\ p.at <= todayStartUTC(d) + 2)

CountType(log, t) == Cardinality({ i \in DOMAIN log : log[i].type = t })

\* C24: for an employee in state 'in' or 'break' at the boundary, the second
\* of performMidnightRollover and ensureBackfillForUser run one after the
\* other (either order) leaves the rows around the boundary as the first
\* left them, with one 'out' and one 'in'.
C24_MutuallyIdempotent ==
  run.op \in {"rollover, backfill", "backfill, rollover"} =>
    LET e == run.emp
    IN StatesAtBoundary(run.orig[e], endYesterdayUTC(run.day)) \subseteq {"in", "break"}
         => /\ AroundBoundary(punches[e], run.day) = AroundBoundary(run.before[e], run.day)
            /\ CountType(AroundBoundary(punches[e], run.day), "out") = 1
            /\ CountType(AroundBoundary(punches[e], run.day), "in") = 1

\* ====================================================== nyLocalToUTC alone
\* nyLocalToUTC(y, m, d, h, mi, s) on the time line k: the offset is that of
\* the probe at 12:00 UTC of the date
nyLocalToUTCAt(k, d, h, mi, s) ==
  DateUTC(d, h, mi, s) + (-offsetMin(k, d)) * 60

\* wall-clock times handed to nyLocalToUTC: the first and the last second
\* of every hour
WallTimes == { <<h, ms[1], ms[2]>> : h \in 0 .. 23, ms \in { <<0, 0>>, <<59, 59>> } }

InitConv ==
  /\ punches = [e \in Employees |-> <<>>]
  /\ active = Employees
  /\ now = 0
  /\ accepted = 0
  /\ run = NoRun
  /\ hPunches = <<>>
  /\ hCurrentTime = Null
  /\ hWall = 0
  /\ hResult = <<>>
  /\ proc = [p \in Procs |-> ProcIdle]
  /\ overlap = {}
  /\ session = NoSessions
  /\ tz \in {"none", "spring", "fall"}
  /\ serverTz = "NY"
  /\ utc = 0
  /\ timers = <<>>
  /\ fired = <<>>
  /\ tick = NoTick
  /\ up = TRUE
  /\ rolled = {}
  /\ shown = <<>>
  /\ own = <<>>
  /\ CallIdle
  /\ cDate \in 0 .. MaxZoneDay
  /\ cTime \in WallTimes
  /\ cInstant = <<>>

ConvCall ==
  /\ cInstant = <<>>
  /\ cInstant' = << nyLocalToUTCAt(tz, cDate, cTime[1], cTime[2], cTime[3]) >>
  /\ UNCHANGED <<storeVars, hoursVars, raceVars, sessionVars, viewVars, timerVars,
                 callVars, cDate, cTime>>

NextConv == ConvCall

SpecConv == InitConv /\ [][NextConv]_vars

\* C21: the NY civil date of the instant nyLocalToUTC(y, m, d, h, mi, s) is
\* (y, m, d), and the instant returned for 00:00:00 is the first instant of
\* that civil day.
C21_RoundTripsWithCivilDate ==
  cInstant # <<>> =>
    /\ nyCivilDate(tz, cInstant[1]) = cDate
    /\ cTime = <<0, 0, 0>> => nyCivilDate(tz, cInstant[1] - 1) = cDate - 1

====
